---- MODULE Spec2Model ----
(***************************************************************************)
(* State machine of the Govee API client (class Govee of                   *)
(* src/govee_api_laggat/govee_api_laggat.py) with its learning storage     *)
(* (src/govee_api_laggat/learning_storage.py): the device registry, the    *)
(* rate limiter, the locks a command sets, the offline policy, the         *)
(* field-ignore configuration and the brightness-range learning.           *)
(*                                                                         *)
(* Every call of the client is a coroutine of the event loop (`tasks`).    *)
(* An action is what a coroutine does between two awaits that can yield    *)
(* to the loop: from the call to its first await (CallTurn,                *)
(* CallSetBrightness, CallSetColorTemp, CallSetColor, CallGetDevices,      *)
(* CallGetStates, CallPing, CallCheckConnection), from the end of an       *)
(* asyncio.sleep (Wake), from the status line and headers of a response    *)
(* or a ClientError (Respond, RespondState, RespondDevices, RespondPing),  *)
(* from the body of the response (Body, BodyState, BodyDevices, BodyPing)  *)
(* and from the return of the backing store's read() and write()           *)
(* (ReadDone, WriteDone).  The code between two awaits runs without        *)
(* interruption, as on the single thread of the event loop; at an await    *)
(* any other coroutine may run.  The setters of the client's properties    *)
(* have no await and are one action each.                                  *)
(*                                                                         *)
(* The answers of the vendor API (status, rate-limit headers, message,     *)
(* state properties, listing) are inputs of the actions that take them.    *)
(* Time is the integer clock `now` in seconds; only Tick moves it, and a   *)
(* sleeping coroutine is resumed at or after the second its sleep ends.    *)
(*                                                                         *)
(* A coroutine works on the GoveeDevice object it got at the start of its  *)
(* call.  get_devices assigns a new registry of new objects; a coroutine   *)
(* suspended then goes on with its own object (`held`), which is no        *)
(* longer the registry's.                                                  *)
(*                                                                         *)
(* `storage` is the content of the backing store behind read() and         *)
(* write(); `learned_info` and `is_cached` are the cache of                *)
(* GoveeAbstractLearningStorage.  BreakStorage makes write() raise.        *)
(* Restart ends the session and constructs a new client over the same      *)
(* store.                                                                  *)
(*                                                                         *)
(* `last` is the call that the latest step completed, as its caller saw    *)
(* it: its arguments and result, the device or registry and the client     *)
(* before the call, the requests it sent with their answers, the online    *)
(* events it fired and its calls of the backing store.  It is kept for     *)
(* the calls of a caller that awaits each call before the next (no other   *)
(* coroutine is suspended when such a call begins: `Alone` in the next-    *)
(* state relations); specifications with overlapping coroutines keep no    *)
(* record and are read from `tasks` and the client's state.                *)
(*                                                                         *)
(* Bounds: the clock stops at MaxTime; an answer that would put the        *)
(* remaining budget more than MaxSpent below the limit is not taken; two   *)
(* coroutines (TaskIds) and the two devices of tests/mockdata.py.  Not     *)
(* modelled: the texts of log messages, device_name and the support_*      *)
(* flags derived from supportCmds, the HTTP session and its headers, and   *)
(* the Home Assistant integration under custom_components.                 *)
(***************************************************************************)
EXTENDS Integers, Sequences, FiniteSets, TLC

VARIABLES
    devices,                \* Govee._devices: device id -> GoveeDevice
    ignore_fields,          \* Govee._ignore_fields: source -> ignored fields
    config_offline_is_off,  \* Govee._config_offline_is_off: "None", "True", "False"
    online,                 \* Govee._online
    learned_info,           \* GoveeAbstractLearningStorage._learned_info (cache)
    is_cached,              \* GoveeAbstractLearningStorage._is_cached
    storage,                \* content of the backing store (read() / write())
    read_call_count,        \* how often the backing store's read() was called
    write_fails,            \* the backing store's write() raises
    now,                    \* Govee._utcnow(), in whole seconds
    limit,                  \* Govee._limit
    limit_remaining,        \* Govee._limit_remaining
    limit_reset,            \* Govee._limit_reset
    rate_limit_on,          \* Govee._rate_limit_on
    tasks,                  \* the calls running as coroutines of the event loop
    last                    \* the call that the latest step completed, as its caller saw it

vars == <<devices, ignore_fields, config_offline_is_off, online,
          learned_info, is_cached, storage, now, limit, limit_remaining,
          limit_reset, rate_limit_on, tasks, read_call_count,
          write_fails, last>>

----------------------------------------------------------------------------
----------------------------------------------------------------------------
(* Bounds of the model. *)

\* the clock stops at MaxTime
MaxTime == 2

\* how far below the limit the modelled runs let the remaining calls sink
MaxSpent == 5

----------------------------------------------------------------------------
(* Values of the program. *)

\* Python's None in the integer fields learned_*_brightness_max
None == 0

RATELIMIT_RESET_MAX_SECONDS == 180
DELAY_GET_FOLLOWING_SET_SECONDS == 2
DELAY_SET_FOLLOWING_SET_SECONDS == 1

HISTORY == "history"
API == "api"
GoveeSource == {HISTORY, API}

\* the fields of the dataclass GoveeDevice
GoveeDeviceFields ==
    {"device", "model", "device_name", "controllable", "retrievable",
     "support_cmds", "support_turn", "support_brightness", "support_color",
     "support_color_tem", "online", "power_state", "brightness", "color",
     "color_temp", "timestamp", "source", "error", "lock_set_until",
     "lock_get_until", "learned_set_brightness_max",
     "learned_get_brightness_max", "before_set_brightness_turn_on",
     "config_offline_is_off"}

\* GoveeLearnedInfo() with its defaults
GoveeLearnedInfo ==
    [set_brightness_max |-> None,
     get_brightness_max |-> None,
     before_set_brightness_turn_on |-> FALSE,
     config_offline_is_off |-> FALSE]

----------------------------------------------------------------------------
(* The environment: the devices of the account and the answers of the API. *)

DeviceIds == {"D1"}

\* both devices of the account, in the order the API lists them
JSON_DEVICES == <<"D1", "D2">>

AccountDeviceIds == {JSON_DEVICES[i] : i \in 1..Len(JSON_DEVICES)}

\* the items of the /v1/devices answer (tests/mockdata.py: H6163, H6104)
JSON_DEVICE ==
    [d \in AccountDeviceIds |->
        IF d = "D1"
        THEN [model |-> "H6163", controllable |-> TRUE, retrievable |-> TRUE,
              supportCmds |-> {"turn", "brightness", "color", "colorTem"}]
        ELSE [model |-> "H6104", controllable |-> TRUE, retrievable |-> FALSE,
              supportCmds |-> {"turn", "brightness", "color", "colorTem"}]]

\* 200, two error statuses, and -1 for a request that raised aiohttp.ClientError
Statuses == {200, 400, 429, -1}

\* the rate-limit headers of an answer: absent, or the three values, of
\* which `unparsable` names the first that int() or float() refuses
NoHeaders ==
    [present |-> FALSE, total |-> 0, remaining |-> 0, reset |-> 0,
     unparsable |-> "none"]

RateLimitHeaders(totals, remainings, resets, unparsables) ==
    {[present |-> TRUE, total |-> t, remaining |-> r, reset |-> s,
      unparsable |-> u] :
        t \in totals, r \in remainings, s \in resets, u \in unparsables}

\* headers of an API with its whole budget left
PlentyHeaders ==
    [present |-> TRUE, total |-> 100, remaining |-> 100, reset |-> 0,
     unparsable |-> "none"]

\* what the transport gives a request: the status line and the headers of
\* the answer, or (status -1) the aiohttp.ClientError it raised
Answers(statuses, headers) ==
    {[status |-> s, headers |-> h] : s \in statuses, h \in headers}

\* brightness values callers ask for (the valid range is 0 .. 254)
BrightnessArgs == {-1, 0, 1, 142, 254, 255}

\* learning data found in the backing store at start (tests/mockdata.py)
LEARNED_NOTHING == [d \in {} |-> GoveeLearnedInfo]
LEARNED_S100_G254 ==
    [d \in {"D1"} |-> [GoveeLearnedInfo EXCEPT !.get_brightness_max = 254,
                                               !.set_brightness_max = 100]]
LEARNED_TURN_BEFORE_BRIGHTNESS ==
    [d \in {"D1"} |-> [GoveeLearnedInfo EXCEPT !.get_brightness_max = 100,
                                               !.set_brightness_max = 100,
                                               !.before_set_brightness_turn_on = TRUE]]
CONFIGURE_OFFLINE_IS_OFF ==
    [d \in {"D1"} |-> [GoveeLearnedInfo EXCEPT !.get_brightness_max = 254,
                                               !.set_brightness_max = 100,
                                               !.config_offline_is_off = TRUE]]
LEARNED_S254 ==
    [d \in {"D1"} |-> [GoveeLearnedInfo EXCEPT !.set_brightness_max = 254]]

InitialStorage ==
    {LEARNED_NOTHING, LEARNED_S100_G254, LEARNED_TURN_BEFORE_BRIGHTNESS,
     CONFIGURE_OFFLINE_IS_OFF, LEARNED_S254}

----------------------------------------------------------------------------
(* Arithmetic of the code. *)

\* math.floor(a / b) for a >= 0, b > 0
floor_div(a, b) == a \div b

\* math.ceil(a / b) for a >= 0, b > 0
ceil_div(a, b) == (a + b - 1) \div b

max(a, b) == IF a >= b THEN a ELSE b

----------------------------------------------------------------------------
(* Coroutines: a call of the client runs as a coroutine of the event loop
   and is suspended at each await that yields to the loop. *)

TaskIds == {1, 2}

NoError == "None"

\* the head of the error text "API-Error {status} ..." of a response
ApiError(status) ==
    CASE status = 400 -> "API-Error 400"
      [] status = 429 -> "API-Error 429"
      [] status = -1  -> "API-Error -1"
      [] OTHER        -> "API-Error"

\* no GoveeDevice object of its own: the coroutine works on the registry's
NoDevice == [device |-> ""]

\* no answer to a state request
NoStateResponse ==
    [status |-> 0, online |-> "", powerState |-> "", brightness |-> 0,
     color |-> <<0, 0, 0>>, colorTemInKelvin |-> 0, headers |-> NoHeaders]

\* no call completed by the step
Idle == [op |-> "none"]

\* what the caller of a call observes of it: the device or registry and
\* the client before the call, the requests handed to the transport, the
\* events.online fired, the calls of the backing store, the state answers
NoLog ==
    [pre |-> << >>, before |-> << >>, sent |-> << >>, events |-> << >>,
     reads |-> 0, writes |-> 0, resps |-> << >>]

\* a coroutine that runs no call. pc is the await a running one is
\* suspended at: "sleep" (asyncio.sleep; `at` says which one, `wake` when
\* it ends), "request" (the transport, until the status line and headers
\* or a ClientError), "body" (response.json() / text()), "read" and "write"
\* (the backing store). The other fields are the local variables of the
\* call that live across an await.
NoTask ==
    [pc |-> "idle", call |-> "", stage |-> "", at |-> "", wake |-> 0,
     device |-> "", held |-> NoDevice, command |-> "",
     onOff |-> "", brightness |-> 0, brightness_set |-> 0,
     brightness_result |-> 0, color_temp |-> 0, color |-> << >>,
     status |-> 0, result |-> "", err |-> NoError,
     listing |-> {}, timestamp |-> 0,
     rest |-> << >>, rounds |-> 0, resp |-> NoStateResponse,
     prop_power_state |-> FALSE, infos |-> << >>,
     raised |-> "None", traced |-> FALSE, log |-> NoLog]

\* the client as the step of coroutine t works on it: `task` is the
\* coroutine, `replaced` says that the step assigned a new registry and
\* `old` is the registry it replaced, as the step left its objects,
\* `returned` is the call the step completed
World(t) ==
    [devices |-> devices, online |-> online, learned_info |-> learned_info,
     is_cached |-> is_cached, storage |-> storage,
     read_call_count |-> read_call_count,
     limit |-> limit, limit_remaining |-> limit_remaining,
     limit_reset |-> limit_reset,
     task |-> tasks[t], replaced |-> FALSE, old |-> devices,
     returned |-> Idle]

\* the client as the caller sees it when the call begins
Before ==
    [now |-> now, online |-> online, storage |-> storage,
     learned_info |-> learned_info, is_cached |-> is_cached,
     limit |-> limit, limit_remaining |-> limit_remaining,
     limit_reset |-> limit_reset, rate_limit_on |-> rate_limit_on,
     config_offline_is_off |-> config_offline_is_off,
     ignore_fields |-> ignore_fields]

----------------------------------------------------------------------------
(* What the caller observes. *)

\* the parameter of the control request in flight
params(task) ==
    CASE task.command = "turn" -> task.onOff
      [] task.command = "brightness" -> task.brightness_set
      [] task.command = "colorTem" -> task.color_temp
      [] task.command = "color" ->
            [r |-> task.color[1], g |-> task.color[2], b |-> task.color[3]]
      [] OTHER -> ""

\* the request the coroutine hands to the transport
request(task) ==
    CASE task.call = "get_devices" -> [name |-> "devices", value |-> ""]
      [] task.call = "get_states" -> [name |-> "state", value |-> task.device]
      [] task.call \in {"ping", "check_connection"} ->
            [name |-> "ping", value |-> ""]
      [] OTHER -> [name |-> task.command, value |-> params(task)]

log_sent(w) ==
    IF w.task.traced
    THEN [w EXCEPT !.task.log.sent =
            Append(@, request(w.task) @@
                      [at |-> now, answered |-> 0, status |-> 0,
                       message |-> "", headers |-> NoHeaders])]
    ELSE w

log_answered(w, resp) ==
    IF w.task.traced
    THEN [w EXCEPT !.task.log.sent[Len(w.task.log.sent)] =
            [@ EXCEPT !.answered = now, !.status = resp.status,
                      !.headers = resp.headers]]
    ELSE w

log_message(w, message) ==
    IF w.task.traced
    THEN [w EXCEPT !.task.log.sent[Len(w.task.log.sent)].message = message]
    ELSE w

log_event(w, val) ==
    IF w.task.traced
    THEN [w EXCEPT !.task.log.events = Append(@, val)]
    ELSE w

log_read(w) ==
    IF w.task.traced THEN [w EXCEPT !.task.log.reads = @ + 1] ELSE w

log_write(w) ==
    IF w.task.traced THEN [w EXCEPT !.task.log.writes = @ + 1] ELSE w

\* the state answer of the round's device, with the headers it came with
log_resp(w, resp) ==
    IF w.task.traced
    THEN [w EXCEPT !.task.log.resps[w.task.device] =
            [resp EXCEPT !.headers =
                w.task.log.sent[Len(w.task.log.sent)].headers]]
    ELSE w

\* what the call returns to its caller
returns(task, success, err) ==
    CASE task.call = "turn" ->
            [op |-> "turn", device |-> task.device, onOff |-> task.onOff,
             success |-> success, err |-> err]
      [] task.call = "set_brightness" ->
            [op |-> "set_brightness", device |-> task.device,
             brightness |-> task.brightness,
             brightness_result |-> task.brightness_result,
             success |-> success, err |-> err]
      [] task.call = "set_color_temp" ->
            [op |-> "set_color_temp", device |-> task.device,
             color_temp |-> task.color_temp,
             success |-> success, err |-> err]
      [] task.call = "set_color" ->
            [op |-> "set_color", device |-> task.device,
             color |-> task.color, success |-> success, err |-> err]
      [] task.call = "get_devices" ->
            [op |-> "get_devices", listing |-> task.listing,
             status |-> task.status, success |-> success, err |-> err]
      [] task.call = "get_states" ->
            [op |-> "get_states", rounds |-> task.rounds,
             device |-> task.device, success |-> success, err |-> err]
      [] task.call = "ping" ->
            [op |-> "ping", success |-> success, err |-> err]
      [] OTHER ->
            [op |-> "check_connection", success |-> success, err |-> err]

\* the call returns, or raises what `raised` names: the coroutine ends
returned(w, success, err) ==
    [w EXCEPT
        !.task = NoTask,
        !.returned =
            IF w.task.traced
            THEN returns(w.task, success /\ w.task.raised = "None", err)
                 @@ [raised |-> w.task.raised, online |-> w.online]
                 @@ w.task.log
            ELSE Idle]

\* the exception leaves the call
raised(w, exception) ==
    returned([w EXCEPT !.task.raised = exception], FALSE, w.task.err)

----------------------------------------------------------------------------
(* The device a call works on. *)

\* the coroutine holds a GoveeDevice that is not the registry's any more
Detached(task) == task.held.device # ""

\* the GoveeDevice object the call works on
object(w) ==
    IF Detached(w.task) THEN w.task.held ELSE w.devices[w.task.device]

\* an assignment to attributes of that object
set_object(w, dev) ==
    IF Detached(w.task)
    THEN [w EXCEPT !.task.held = dev]
    ELSE [w EXCEPT !.devices[w.task.device] = dev]

\* Govee._get_device / Govee.device on that object: None when no device of
\* the registry has its address
Unknown(w) == w.task.device \notin DOMAIN w.devices

\* Govee._get_lock_seconds
get_lock_seconds(utcSeconds) ==
    IF utcSeconds - now < 0 THEN 0 ELSE utcSeconds - now

\* _update_state that drops an ignored value but still stamps the record
update_state_stamped(dev, source, field, val) ==
    IF field \in ignore_fields[source]
    THEN [dev EXCEPT !.source = source, !.timestamp = now]
    ELSE [[dev EXCEPT ![field] = val] EXCEPT !.source = source,
                                             !.timestamp = now]

\* Govee._update_state on the device found (336-356): the new GoveeDevice
update_state(dev, source, field, val) ==
    IF field \in ignore_fields[source]
    THEN dev
    ELSE [[dev EXCEPT ![field] = val] EXCEPT !.source = source,
                                             !.timestamp = now]

\* Govee._update_state called with the object of the call: when no device
\* of the registry has its address the warning reads device.device of
\* None and raises AttributeError; what was raised before skips the call
update_state_object(w, source, field, val) ==
    IF w.task.raised # "None" THEN w
    ELSE IF Unknown(w) THEN [w EXCEPT !.task.raised = "AttributeError"]
    ELSE set_object(w, update_state(object(w), source, field, val))

\* Govee._set_online(False), second half: every device of the registry
\* is marked offline
all_offline(w, val) ==
    IF ~val
    THEN [w EXCEPT !.devices =
            [d \in DOMAIN w.devices |->
                update_state(w.devices[d], API, "online", FALSE)]]
    ELSE w

set_online_always_fires(w, val) ==
    all_offline(log_event([w EXCEPT !.online = val], val), val)

\* Govee._set_online: a change of the flag fires events.online
set_online(w, val) ==
    all_offline(IF w.online # val
                THEN log_event([w EXCEPT !.online = val], val)
                ELSE w,
                val)

\* the reset time of the header taken as it comes
min_first(a, b) == a

\* min(a, b)
min(a, b) == IF a <= b THEN a ELSE b

\* Govee._track_rate_limit: int(total), int(remaining) and float(reset) are
\* assigned one after the other, so a header that does not parse leaves the
\* earlier ones assigned before remaining is decremented
track_rate_limit(w, headers) ==
    IF ~headers.present \/ headers.unparsable = "total"
    THEN [w EXCEPT !.limit_remaining = @ - 1]
    ELSE IF headers.unparsable = "remaining"
    THEN [w EXCEPT !.limit = headers.total, !.limit_remaining = @ - 1]
    ELSE IF headers.unparsable = "reset"
    THEN [w EXCEPT !.limit = headers.total,
                   !.limit_remaining = headers.remaining - 1]
    ELSE [w EXCEPT !.limit = headers.total,
                   !.limit_remaining = headers.remaining,
                   !.limit_reset =
                       min(headers.reset, now + RATELIMIT_RESET_MAX_SECONDS)]

----------------------------------------------------------------------------
(* Requests. *)

\* the coroutine is suspended in asyncio.sleep(seconds)
sleep(w, at, seconds) ==
    [w EXCEPT !.task.pc = "sleep", !.task.at = at,
              !.task.wake = now + seconds]

rate_limit_delay_below(w) ==
    IF w.limit_remaining < rate_limit_on /\ w.limit_reset - now > 0
    THEN w.limit_reset - now
    ELSE 0

\* Govee.rate_limit_delay: the seconds it sleeps, until the reset when the
\* budget is used up, else 0 for no sleep
rate_limit_delay(w) ==
    IF w.limit_remaining <= rate_limit_on /\ w.limit_reset - now > 0
    THEN w.limit_reset - now
    ELSE 0

\* the request of Govee._api_request_internal is handed to the transport
\* (139) and the coroutine waits for the response
api_request_handed(w) == log_sent([w EXCEPT !.task.pc = "request"])

\* Govee._api_request_internal up to its request: rate_limit_delay (137)
api_request_internal(w) ==
    IF rate_limit_delay(w) > 0
    THEN sleep(w, "limit_request", rate_limit_delay(w))
    ELSE api_request_handed(w)

api_request_answered_online_on_200(w, resp) ==
    IF resp.status # 200
    THEN set_online(log_answered(w, resp), FALSE)
    ELSE track_rate_limit(set_online(log_answered(w, resp), TRUE),
                          resp.headers)

\* Govee._api_request_internal when the transport answers (139-158): a
\* response marks the client online and is tracked, a ClientError marks it
\* offline and yields the error_response (status -1)
api_request_answered(w, resp) ==
    IF resp.status = -1
    THEN set_online(log_answered(w, resp), FALSE)
    ELSE track_rate_limit(set_online(log_answered(w, resp), TRUE),
                          resp.headers)

\* the coroutine reads the body of the response of that status
body(w, status) == [w EXCEPT !.task.pc = "body", !.task.status = status]
----------------------------------------------------------------------------
(* Control requests. *)

RECURSIVE control(_, _)
RECURSIVE get_states_from(_)

\* the message in the body of an accepted control request
ControlMessages == {"Success", "Failed"}

\* Govee._is_success_result_message, on the message of the body
is_success_result_message(result) == result = "Success"

\* the request of Govee._control once the lock has expired:
\* rate_limit_delay (742), then _api_put
control_unlocked(w) ==
    IF rate_limit_delay(w) > 0
    THEN sleep(w, "limit_control", rate_limit_delay(w))
    ELSE api_request_internal(w)

\* the wait for the lock that is not repeated after the sleep
control_locked_once(w) ==
    IF w.task.at # "lock" /\ get_lock_seconds(object(w).lock_set_until) # 0
    THEN sleep(w, "lock", get_lock_seconds(object(w).lock_set_until))
    ELSE control_unlocked(w)

\* the loop of Govee._control (735-740): sleep while the lock on control
\* requests has not expired, checked again after each sleep
control_locked(w) ==
    IF get_lock_seconds(object(w).lock_set_until) # 0
    THEN sleep(w, "lock", get_lock_seconds(object(w).lock_set_until))
    ELSE control_unlocked(w)

----------------------------------------------------------------------------
(* Learning. *)

\* the call returned success, err of a request that was accepted
succeeded(task) ==
    task.err = NoError /\ is_success_result_message(task.result)

\* the end of Govee.set_brightness (587-599)
set_brightness_final(w) ==
    returned(IF succeeded(w.task)
             THEN update_state_object(
                    update_state_object(w, HISTORY, "brightness",
                                        w.task.brightness_result),
                    HISTORY, "power_state", w.task.brightness_result > 0)
             ELSE w,
             succeeded(w.task), w.task.err)

\* the scaling of a polled brightness rounded up
scale_get_brightness_ceil(learned, prop_brightness) ==
    IF learned = 100 THEN ceil_div(prop_brightness * 254, 100)
    ELSE prop_brightness

\* prop_brightness of Govee._get_device_state on the scale 0 .. 254
scale_get_brightness(learned, prop_brightness) ==
    IF learned = 100 THEN floor_div(prop_brightness * 254, 100)
    ELSE prop_brightness

\* the end of Govee._get_device_state (868) and of the round of
\* Govee.get_states (766-773): what _update_state raised inside the
\* response's block leaves it as a RuntimeError; else the error of the
\* registry's device is cleared and the loop goes on
state_updated(w) ==
    IF w.task.raised # "None"
    THEN raised(w, "RuntimeError")
    ELSE get_states_from(
            [w EXCEPT !.devices[w.task.device].error = NoError])

\* Govee._get_device_state after the learning (852-867): the polled
\* values are written to the device
state_applied(w) ==
    state_updated(
        update_state_object(
            update_state_object(
                update_state_object(
                    update_state_object(
                        update_state_object(
                            update_state_object(w, API, "error", NoError),
                            API, "online",
                            w.task.resp.online \in {"True", "true"}),
                        API, "power_state", w.task.prop_power_state),
                    API, "brightness",
                    scale_get_brightness(
                        object(w).learned_get_brightness_max,
                        w.task.resp.brightness)),
                API, "color", w.task.resp.color),
            API, "color_temp", w.task.resp.colorTemInKelvin))

\* Govee._learn returned to its caller
learn_returned(w) ==
    IF w.task.call = "set_brightness"
    THEN set_brightness_final(w)
    ELSE state_applied(w)

\* what the backing store's write() raised leaves Govee._learn and its
\* caller: set_brightness, or the response's block of _get_device_state
write_raised(w) ==
    IF w.task.call = "set_brightness"
    THEN raised(w, "write")
    ELSE raised(w, "RuntimeError")

\* GoveeAbstractLearningStorage._write_cached: the cache is assigned, then
\* write() is awaited with the learned infos
write_cached(w, infos) ==
    log_write([w EXCEPT !.learned_info = infos, !.is_cached = TRUE,
                        !.task.pc = "write", !.task.infos = infos])

\* the backing store's write() returned or raised
write_returned(w) ==
    IF write_fails
    THEN write_raised(w)
    ELSE learn_returned([w EXCEPT !.storage = w.task.infos])

\* learned infos of the device alone, without the entries of the others
learned_infos_device_only(w) ==
    [x \in {w.task.device} |->
        [(IF x \in DOMAIN w.learned_info
          THEN w.learned_info[x] ELSE GoveeLearnedInfo) EXCEPT
            !.set_brightness_max = object(w).learned_set_brightness_max,
            !.get_brightness_max = object(w).learned_get_brightness_max]]

\* the learned infos of the cache with the device's ranges
learned_infos(w) ==
    [x \in DOMAIN w.learned_info \cup {w.task.device} |->
        IF x = w.task.device
        THEN [(IF x \in DOMAIN w.learned_info
               THEN w.learned_info[x] ELSE GoveeLearnedInfo) EXCEPT
                !.set_brightness_max = object(w).learned_set_brightness_max,
                !.get_brightness_max = object(w).learned_get_brightness_max]
        ELSE w.learned_info[x]]

\* whether Govee._learn finds a range of the device that the cache lacks
learned_changed(w) ==
    \/ w.task.device \notin DOMAIN w.learned_info
       /\ \/ object(w).learned_set_brightness_max # None
          \/ object(w).learned_get_brightness_max # None
    \/ w.task.device \in DOMAIN w.learned_info
       /\ \/ w.learned_info[w.task.device].set_brightness_max
                # object(w).learned_set_brightness_max
          \/ w.learned_info[w.task.device].get_brightness_max
                # object(w).learned_get_brightness_max

learn_cached_always_written(w) == write_cached(w, learned_infos(w))

\* the comparison of Govee._learn (606-646), on the learned infos read
\* from the cache: the cache's entry is brought up to the device, and
\* written when a range changed
learn_cached(w) ==
    IF learned_changed(w)
    THEN write_cached(w, learned_infos(w))
    ELSE learn_returned([w EXCEPT !.learned_info = learned_infos(w)])

----------------------------------------------------------------------------
(* Discovery. *)

\* the end of Govee.get_devices (487-488): the registry becomes the
\* devices built, none after an error; the objects of the registry it
\* replaces stay as they are then (marked offline by _set_online(False)
\* when the request raised ClientError)
get_devices_assigned(w, devs, err) ==
    returned([w EXCEPT !.devices = devs, !.replaced = TRUE,
                       !.old = w.devices],
             err = NoError, err)

----------------------------------------------------------------------------
(* State polling. *)

\* the online property of a state answer: the JSON booleans, or the strings
\* the vendor sends in their place
OnlineValues == {"True", "False", "true", "false"}

\* the colour of the state answer of the tests (tests/mockdata.py,
\* JSON_DEVICE_STATE), and the values of the colour properties drawn from:
\* <<0, 0, 0>> and 0 stand for an answer without the property, which is
\* what Govee._get_device_state assumes then
JSON_STATE_COLOR == <<139, 0, 255>>

StateColors == {<<0, 0, 0>>, JSON_STATE_COLOR}

StateColorTemps == {0, 3000}

\* the answers to a state request that the API accepts: the properties
StateAnswers(onlines, raws, colors, color_temps) ==
    {[status |-> 200, online |-> o, powerState |-> p, brightness |-> b,
      color |-> c, colorTemInKelvin |-> k, headers |-> PlentyHeaders] :
        o \in onlines, p \in {"on", "off"}, b \in raws,
        c \in colors, k \in color_temps}

\* the offline policy with the device's flag consulted before the global one
offline_power_state_device_first(dev, prop_online, prop_power_state) ==
    IF ~prop_online
    THEN IF dev.config_offline_is_off THEN FALSE
         ELSE IF config_offline_is_off = "True" THEN FALSE
         ELSE prop_power_state
    ELSE prop_power_state

\* prop_power_state of Govee._get_device_state after the offline policy
offline_power_state(dev, prop_online, prop_power_state) ==
    IF ~prop_online
    THEN IF config_offline_is_off # "None"
         THEN IF config_offline_is_off = "True" THEN FALSE ELSE prop_power_state
         ELSE IF dev.config_offline_is_off THEN FALSE ELSE prop_power_state
    ELSE prop_power_state

\* the autobrightness learning that never widens a learned 100
learn_get_brightness_max_never_widened(learned, prop_brightness) ==
    IF learned = None
    THEN IF prop_brightness > 100 THEN 254 ELSE 100
    ELSE learned

\* the autobrightness learning of Govee._get_device_state: the new
\* learned_get_brightness_max
learn_get_brightness_max(learned, prop_brightness) ==
    IF learned = None \/ (learned = 100 /\ prop_brightness > 100)
    THEN IF prop_brightness > 100 THEN 254 ELSE 100
    ELSE learned
\* the GoveeDevice that Govee.get_devices creates for an item of the answer
new_device(d, infos, timestamp) ==
    LET item == JSON_DEVICE[d]
        known == d \in DOMAIN infos
    IN  [device |-> d,
         model |-> item.model,
         controllable |-> item.controllable,
         retrievable |-> item.retrievable,
         support_cmds |-> item.supportCmds,
         online |-> TRUE,
         power_state |-> FALSE,
         brightness |-> 0,
         color |-> <<0, 0, 0>>,
         color_temp |-> 0,
         timestamp |-> timestamp,
         source |-> HISTORY,
         error |-> NoError,
         lock_set_until |-> 0,
         lock_get_until |-> 0,
         learned_set_brightness_max |->
            IF known THEN infos[d].set_brightness_max ELSE None,
         learned_get_brightness_max |->
            IF known THEN infos[d].get_brightness_max
            ELSE IF ~item.retrievable THEN -1 ELSE None,
         before_set_brightness_turn_on |->
            IF known THEN infos[d].before_set_brightness_turn_on
            ELSE item.model = "H6104",
         config_offline_is_off |->
            IF known THEN infos[d].config_offline_is_off ELSE FALSE]

\* the registry of an answer whose devices are those of the listing
get_devices_built(w) ==
    get_devices_assigned(
        w,
        [d \in w.task.listing |->
            new_device(d, w.learned_info, w.task.timestamp)],
        NoError)

\* the backing store's read() returned to _read_cached (29-31), which
\* returns the cache to its caller: get_devices or _learn
read_returned(w) ==
    IF w.task.call = "get_devices"
    THEN get_devices_built(w)
    ELSE learn_cached(w)

\* GoveeAbstractLearningStorage._read_cached: read() is awaited when the
\* cache was not filled
read_cached(w) ==
    IF ~w.is_cached
    THEN log_read([w EXCEPT !.read_call_count = @ + 1, !.task.pc = "read"])
    ELSE read_returned(w)

\* Govee._learn: persist the learned ranges of the device
learn(w) == read_cached(w)

\* Govee.get_devices when the transport answers: the error_response of a
\* ClientError is read at once
get_devices_answered(w, resp) ==
    IF resp.status = -1
    THEN get_devices_assigned([w EXCEPT !.task.status = -1],
                              [d \in {} |-> 0], ApiError(-1))
    ELSE body(w, resp.status)

\* Govee.get_devices when the body is read (424-427, 484-485)
get_devices_read(w, listing) ==
    IF w.task.status = 200
    THEN read_cached([w EXCEPT !.task.listing = listing,
                               !.task.timestamp = now])
    ELSE get_devices_assigned(w, [d \in {} |-> 0], ApiError(w.task.status))

\* Govee.get_devices
get_devices(w) == api_request_internal(w)

----------------------------------------------------------------------------
(* Commands. *)

\* the coroutine that called Govee._turn goes on: set_brightness sleeps a
\* second after its turn_on (556), a caller of turn_on / turn_off returns
turn_returned(w, success, err) ==
    IF w.task.call = "set_brightness" /\ w.task.raised = "None"
    THEN sleep(w, "pause", 1)
    ELSE returned(w, success, err)

\* the end of Govee._turn (530-537) once _control returned
turn_controlled(w, result, err) ==
    turn_returned(
        IF err = NoError /\ is_success_result_message(result)
        THEN update_state_object(w, HISTORY, "power_state",
                                 w.task.onOff = "on")
        ELSE w,
        err = NoError /\ is_success_result_message(result), err)

\* brightness_set_100 without the minimum of 1
brightness_set_100_no_minimum(brightness) ==
    IF brightness > 0 THEN floor_div(brightness * 100, 254) ELSE 0

\* brightness_set_100 of Govee.set_brightness: the value on the 0 .. 100 scale
brightness_set_100(brightness) ==
    IF brightness > 0 THEN max(1, floor_div(brightness * 100, 254)) ELSE 0

\* brightness_result_100 rounded down
brightness_result_100_floor(brightness) ==
    floor_div(brightness_set_100(brightness) * 254, 100)

\* brightness_result_100 of Govee.set_brightness: that value back on 0 .. 254
brightness_result_100(brightness) ==
    ceil_div(brightness_set_100(brightness) * 254, 100)

\* brightness_set of Govee.set_brightness: the value of the first request
brightness_set(dev, brightness) ==
    IF dev.learned_set_brightness_max = 100
    THEN brightness_set_100(brightness) ELSE brightness

\* brightness_result of Govee.set_brightness before any retry
brightness_result(dev, brightness) ==
    IF dev.learned_set_brightness_max = 100
    THEN brightness_result_100(brightness) ELSE brightness

\* the test  "API-Error 400" in err  of Govee.set_brightness
is_error_400(err) == err = ApiError(400)

\* the retry that keeps brightness_result at the requested value
set_brightness_retry_requested(w) ==
    control([w EXCEPT !.task.stage = "retry",
                      !.task.brightness_set =
                          brightness_set_100(w.task.brightness),
                      !.task.brightness_result = w.task.brightness],
            "brightness")

\* the retry of Govee.set_brightness on the scale 0 .. 100 (571-576)
set_brightness_retry(w) ==
    control([w EXCEPT !.task.stage = "retry",
                      !.task.brightness_set =
                          brightness_set_100(w.task.brightness),
                      !.task.brightness_result =
                          brightness_result_100(w.task.brightness)],
            "brightness")

\* what Govee.set_brightness learns from the retry (577-581)
set_brightness_retried(w) ==
    IF w.task.err = NoError
    THEN learn(set_object(w, [object(w) EXCEPT
                                !.learned_set_brightness_max = 100]))
    ELSE set_brightness_final(w)

\* set_brightness that records the wide range without calling _learn
set_brightness_sent_unpersisted(w) ==
    IF w.task.err # NoError
    THEN IF is_error_400(w.task.err)
         THEN set_brightness_retry(w)
         ELSE set_brightness_final(w)
    ELSE IF w.task.brightness_set > 100
    THEN set_brightness_final(
            set_object(w, [object(w) EXCEPT
                            !.learned_set_brightness_max = 254]))
    ELSE set_brightness_final(w)

\* set_brightness that retries after any refusal, not only after a 400
set_brightness_sent_retry_any_error(w) ==
    IF w.task.err # NoError
    THEN set_brightness_retry(w)
    ELSE IF w.task.brightness_set > 100
    THEN learn(set_object(w, [object(w) EXCEPT
                                !.learned_set_brightness_max = 254]))
    ELSE set_brightness_final(w)

\* what Govee.set_brightness does after its first request (570-585):
\* retry a value refused with 400 on the scale 0 .. 100, learn the wide
\* range from an accepted value above 100
set_brightness_sent(w) ==
    IF w.task.err # NoError
    THEN IF is_error_400(w.task.err)
         THEN set_brightness_retry(w)
         ELSE set_brightness_final(w)
    ELSE IF w.task.brightness_set > 100
    THEN learn(set_object(w, [object(w) EXCEPT
                                !.learned_set_brightness_max = 254]))
    ELSE set_brightness_final(w)

\* Govee.set_brightness once a _control of its own returned
set_brightness_controlled(w) ==
    IF w.task.stage = "retry"
    THEN set_brightness_retried(w)
    ELSE set_brightness_sent(w)

\* the first request of Govee.set_brightness (557-569): the value on the
\* scale the device is known to take
set_brightness_first(w) ==
    control([w EXCEPT !.task.stage = "first",
                      !.task.brightness_set =
                          brightness_set(object(w), w.task.brightness),
                      !.task.brightness_result =
                          brightness_result(object(w), w.task.brightness)],
            "brightness")

\* set_brightness that turns the device on whatever the brightness
turn_on_before_any_brightness(dev, brightness) ==
    dev.before_set_brightness_turn_on

\* the test of Govee.set_brightness for a device that wants a turn_on
\* before its brightness is set (553)
turn_on_before(dev, brightness) ==
    brightness > 0 /\ dev.before_set_brightness_turn_on

\* Govee.set_brightness on a device of the registry
set_brightness(w) ==
    IF w.task.brightness < 0 \/ w.task.brightness > 254
    THEN returned([w EXCEPT !.task.brightness_result = w.task.brightness],
                  FALSE, "invalid value")
    ELSE IF turn_on_before(object(w), w.task.brightness)
    THEN control([w EXCEPT !.task.stage = "turn_on", !.task.onOff = "on"],
                 "turn")
    ELSE set_brightness_first(w)

\* the end of Govee.set_color_temp (662-669) and of Govee.set_color
\* (698-705) once _control returned: the field is set to the value
command_controlled(w, result, err, field, val) ==
    returned(IF err = NoError /\ is_success_result_message(result)
             THEN update_state_object(w, HISTORY, field, val)
             ELSE w,
             err = NoError /\ is_success_result_message(result), err)

\* set_color_temp that sends whatever value it is given
set_color_temp_unchecked(w) == control(w, "colorTem")

\* Govee.set_color_temp on a device of the registry
set_color_temp(w) ==
    IF w.task.color_temp < 2000 \/ w.task.color_temp > 9000
    THEN returned(w, FALSE, "invalid value")
    ELSE control(w, "colorTem")

\* the tests of Govee.set_color on its argument: three components, each
\* within 0 .. 255
is_valid_color(color) ==
    /\ Len(color) = 3
    /\ \A i \in 1..3 : color[i] >= 0 /\ color[i] <= 255

\* Govee.set_color on a device of the registry; the request carries
\* {"r": red, "g": green, "b": blue}
set_color(w) ==
    IF ~is_valid_color(w.task.color)
    THEN returned(w, FALSE, "invalid value")
    ELSE control(w, "color")

\* Govee._turn on a device of the registry
turn(w) == control(w, "turn")

\* Govee._control returned result, err to the command that awaited it
control_returned(w, result, err) ==
    CASE w.task.command = "turn" -> turn_controlled(w, result, err)
      [] w.task.command = "brightness" ->
            set_brightness_controlled(
                [w EXCEPT !.task.result = result, !.task.err = err])
      [] w.task.command = "colorTem" ->
            command_controlled(w, result, err, "color_temp",
                               w.task.color_temp)
      [] OTHER ->
            command_controlled(w, result, err, "color", w.task.color)

\* Govee._control (714-758) up to its first await: the device the caller
\* passed must be one of the registry, controllable, and take the command
control(w, command) ==
    IF Unknown(w)
    THEN control_returned([w EXCEPT !.task.command = command], "",
                          "Invalid device")
    ELSE IF ~object(w).controllable
    THEN control_returned([w EXCEPT !.task.command = command], "",
                          "not controllable")
    ELSE IF command \notin object(w).support_cmds
    THEN control_returned([w EXCEPT !.task.command = command], "",
                          "command not possible")
    ELSE control_locked([w EXCEPT !.task.command = command])

\* Govee._control when the transport answers (743-752): an accepted
\* request locks the device before its body is read; the error_response
\* of a ClientError is read at once
control_answered(w, resp) ==
    IF resp.status = -1
    THEN control_returned(w, "", ApiError(-1))
    ELSE IF resp.status = 200
    THEN body(set_object(w, [object(w) EXCEPT
                !.lock_set_until = now + DELAY_SET_FOLLOWING_SET_SECONDS,
                !.lock_get_until = now + DELAY_GET_FOLLOWING_SET_SECONDS]),
              200)
    ELSE body(w, resp.status)

\* Govee._control when the body is read (753-757)
control_read(w, message) ==
    IF w.task.status = 200
    THEN control_returned(log_message(w, message), message, NoError)
    ELSE control_returned(w, "", ApiError(w.task.status))

----------------------------------------------------------------------------
(* The poll. *)

\* the answer could not be used: _get_device_state returns no device and
\* the assignment state.error = err of Govee.get_states (771) raises
\* AttributeError
state_failed(w, status) ==
    raised([w EXCEPT !.task.err = ApiError(status)], "AttributeError")

\* Govee._get_device_state when the transport answers
state_answered(w, resp) ==
    IF resp.status = -1
    THEN state_failed(log_resp(w, [NoStateResponse EXCEPT !.status = -1]),
                      -1)
    ELSE body(w, resp.status)

\* the autobrightness learning of Govee._get_device_state (842-851) on
\* the answer kept in the coroutine
state_learned(w) ==
    IF \/ object(w).learned_get_brightness_max = None
       \/ /\ object(w).learned_get_brightness_max = 100
          /\ w.task.resp.brightness > 100
    THEN learn(set_object(w, [object(w) EXCEPT
                !.learned_get_brightness_max =
                    learn_get_brightness_max(
                        object(w).learned_get_brightness_max,
                        w.task.resp.brightness)]))
    ELSE state_applied(w)

\* Govee._get_device_state when the body is read (805-839, 870-872): the
\* properties of the answer and the offline policy
state_read(w, resp) ==
    IF w.task.status = 200
    THEN state_learned(
            [log_resp(w, resp) EXCEPT
                !.task.resp = resp,
                !.task.prop_power_state =
                    offline_power_state(object(w),
                                        resp.online \in {"True", "true"},
                                        resp.powerState = "on")])
    ELSE state_failed(log_resp(w, resp), w.task.status)

\* the answer from the record, without a request (786-798), and the end
\* of the round of Govee.get_states
state_cached(w) ==
    get_states_from(
        [w EXCEPT !.devices[w.task.device] =
            [update_state(@, HISTORY, "source", HISTORY) EXCEPT
                !.error = NoError]])

get_device_state_unlocked(w) ==
    IF ~object(w).retrievable
    THEN state_cached(w)
    ELSE api_request_internal(w)

\* Govee._get_device_state on a device of the registry (776-801): no
\* request for a device that is not retrievable or is locked after a
\* command
get_device_state(w) ==
    IF \/ ~object(w).retrievable
       \/ get_lock_seconds(object(w).lock_get_until) # 0
    THEN state_cached(w)
    ELSE api_request_internal(w)

\* self._devices in iteration order: the order of the devices answer
devices_in_order(devs) ==
    SelectSeq(JSON_DEVICES, LAMBDA d : d \in DOMAIN devs)

\* the loop of Govee.get_states (763-774) from the next device on, over
\* the addresses of the registry it began with: _get_device raises
\* GoveeDeviceNotFound for an address the registry has no more
get_states_from(w) ==
    IF w.task.rest = << >>
    THEN returned(w, TRUE, NoError)
    ELSE IF Head(w.task.rest) \notin DOMAIN w.devices
    THEN raised([w EXCEPT !.task.device = Head(w.task.rest),
                          !.task.held = NoDevice,
                          !.task.rest = Tail(w.task.rest),
                          !.task.rounds = @ + 1],
                "GoveeDeviceNotFound")
    ELSE get_device_state(
            [w EXCEPT !.task.device = Head(w.task.rest),
                      !.task.held = NoDevice,
                      !.task.rest = Tail(w.task.rest),
                      !.task.rounds = @ + 1])

\* Govee.get_states
get_states(w) == get_states_from(w)

----------------------------------------------------------------------------
(* Ping. *)

\* the text of a ping answered with 200
PingTexts == {"Pong", ""}

\* Govee.ping returned to its caller; Govee.check_connection (387-394)
\* returns the online flag whatever the ping gave
ping_returned(w, success, err) ==
    IF w.task.call = "check_connection"
    THEN returned(w, w.online, NoError)
    ELSE returned(w, success, err)

\* Govee.ping when the transport answers: the error_response of a
\* ClientError is read at once
ping_answered(w, resp) ==
    IF resp.status = -1
    THEN ping_returned(w, FALSE, ApiError(-1))
    ELSE body(w, resp.status)

\* Govee.ping when the text is read (402-413)
ping_read(w, message) ==
    IF w.task.status = 200
    THEN IF message = "Pong"
         THEN ping_returned(w, TRUE, NoError)
         ELSE ping_returned(w, FALSE, "API-Result wrong")
    ELSE ping_returned(w, FALSE, ApiError(w.task.status))

\* Govee.ping: a GET of the ping endpoint through _api_get
ping(w) == api_request_internal(w)

----------------------------------------------------------------------------
(* The event loop resumes a coroutine. *)

\* the sleep of the coroutine ended
woken(w) ==
    CASE w.task.at = "lock" -> control_locked(w)
      [] w.task.at = "limit_control" -> api_request_internal(w)
      [] w.task.at = "limit_request" -> api_request_handed(w)
      [] OTHER -> set_brightness_first(w)

\* the transport answered the request of the coroutine: the status line
\* and the headers, or a ClientError
answered(w, resp) ==
    CASE w.task.call = "get_devices" -> get_devices_answered(w, resp)
      [] w.task.call = "get_states" -> state_answered(w, resp)
      [] w.task.call \in {"ping", "check_connection"} ->
            ping_answered(w, resp)
      [] OTHER -> control_answered(w, resp)
----------------------------------------------------------------------------
(* Configuration. *)

\* str.lower() on the words the model uses
lower(str) ==
    CASE str \in {"API", "Api"} -> "api"
      [] str \in {"HISTORY", "History"} -> "history"
      [] str = "Brightness" -> "brightness"
      [] OTHER -> str

\* An ignore string, split at ";" and each stripped pair split at ":";
\* a blank pair is the empty sequence.
IgnoreStrings ==
    {<< >>,
     << <<"History", "brightness">>, <<"API", "power_state">> >>,
     << <<"API", "Brightness">>, << >>, <<"HISTORY", "power_state">> >>,
     << <<"api", "online">>, <<"ble", "online">> >>,
     << <<"history", "brightnes">> >>,
     << <<"api">> >>}

NoIgnoreFields == [src \in GoveeSource |-> {}]

\* the loop that skips a pair it cannot use instead of raising
RECURSIVE parse_ignore_skipping(_, _)
parse_ignore_skipping(pair_list, fields) ==
    IF pair_list = << >>
    THEN [raised |-> "None", ignore_fields |-> fields]
    ELSE IF \/ Len(Head(pair_list)) # 2
            \/ lower(Head(pair_list)[1]) \notin {"api", "history"}
            \/ lower(Head(pair_list)[2]) \notin GoveeDeviceFields
    THEN parse_ignore_skipping(Tail(pair_list), fields)
    ELSE parse_ignore_skipping(
            Tail(pair_list),
            [fields EXCEPT ![lower(Head(pair_list)[1])] =
                              @ \cup {lower(Head(pair_list)[2])}])

\* the loop of Govee.ignore_device_attributes over the pairs: the new
\* ignore_fields, or what it raises: a GoveeError, or the TypeError of the
\* message for an unknown attribute, which has one %s for two arguments
RECURSIVE parse_ignore(_, _)
parse_ignore(pair_list, fields) ==
    IF pair_list = << >>
    THEN [raised |-> "None", ignore_fields |-> fields]
    ELSE
      LET pair_details == Head(pair_list)
      IN  IF pair_details = << >>
          THEN parse_ignore(Tail(pair_list), fields)
          ELSE IF Len(pair_details) # 2
          THEN [raised |-> "GoveeError: format", ignore_fields |-> fields]
          ELSE
            LET src == lower(pair_details[1])
                field == lower(pair_details[2])
            IN  IF src \notin {"api", "history"}
                THEN [raised |-> "GoveeError: source", ignore_fields |-> fields]
                ELSE IF field \notin GoveeDeviceFields
                THEN [raised |-> "TypeError", ignore_fields |-> fields]
                ELSE parse_ignore(Tail(pair_list),
                                  [fields EXCEPT ![src] = @ \cup {field}])
----------------------------------------------------------------------------
(* The state machine. *)

\* the client after construction, over a backing store that holds one of
\* the maps `stores`
Start(stores) ==
    /\ devices = [d \in {} |-> 0]
    /\ ignore_fields = NoIgnoreFields
    /\ config_offline_is_off = "None"
    /\ online = TRUE
    /\ learned_info = [d \in {} |-> 0]
    /\ is_cached = FALSE
    /\ storage \in stores
    /\ now = 0
    /\ limit = 100
    /\ limit_remaining = 100
    /\ limit_reset = 0
    /\ rate_limit_on = 5
    /\ tasks = [t \in TaskIds |-> NoTask]
    /\ read_call_count = 0
    /\ write_fails = FALSE
    /\ last = Idle

Init == Start(InitialStorage)

\* the record of a restart stays until the next call returns
Keep(call) == IF call.op = "restart" THEN call ELSE Idle

\* the call a step without awaits completed
Record(trace, call) == last' = IF trace THEN call ELSE Keep(last)

\* a coroutine that holds a GoveeDevice of the registry goes on with that
\* object, as the replaced registry `old` has it, once get_devices has
\* assigned its new registry of new objects
detached(task, old) ==
    IF task.pc # "idle" /\ task.device # "" /\ ~Detached(task)
    THEN [task EXCEPT !.held = old[task.device]]
    ELSE task

\* the step of coroutine t ends at its next await or at its return: what
\* it did to the client
Commit(w, t) ==
    /\ devices' = w.devices
    /\ online' = w.online
    /\ learned_info' = w.learned_info
    /\ is_cached' = w.is_cached
    /\ storage' = w.storage
    /\ read_call_count' = w.read_call_count
    /\ limit' = w.limit
    /\ limit_remaining' = w.limit_remaining
    /\ limit_reset' = w.limit_reset
    /\ tasks' = [u \in TaskIds |->
                    IF u = t THEN w.task
                    ELSE IF w.replaced THEN detached(tasks[u], w.old)
                    ELSE tasks[u]]
    /\ last' = IF w.returned.op # "none" THEN w.returned ELSE Keep(last)
    /\ UNCHANGED <<ignore_fields, config_offline_is_off, rate_limit_on, now,
                   write_fails>>

\* no coroutine of the client is suspended in a call
Alone == \A t \in TaskIds : tasks[t].pc = "idle"

\* the coroutine that runs the next call: the first that runs none
Free(t) ==
    /\ tasks[t].pc = "idle"
    /\ \A u \in TaskIds : u < t => tasks[u].pc # "idle"

\* a call begins in coroutine t; pre is what its caller sees of the
\* device or the registry then
called(t, call, trace, pre) ==
    [World(t) EXCEPT
        !.task = [NoTask EXCEPT
                    !.call = call, !.traced = trace,
                    !.log = IF trace
                            THEN [NoLog EXCEPT !.pre = pre, !.before = Before]
                            ELSE NoLog]]

\* the calls that send control requests
Commands == {"turn", "set_brightness", "set_color_temp", "set_color"}

\* a second passes
Tick ==
    /\ now < MaxTime
    /\ now' = now + 1
    /\ last' = Keep(last)
    /\ UNCHANGED <<devices, ignore_fields, config_offline_is_off, online,
                   learned_info, is_cached, storage, limit, limit_remaining,
                   limit_reset, rate_limit_on, tasks, read_call_count,
                   write_fails>>

\* Govee.turn_on, Govee.turn_off are called, up to the first await
CallTurn(t, trace) ==
    /\ Free(t)
    /\ \E d \in DOMAIN devices, onOff \in {"on", "off"} :
        \E w \in {turn([called(t, "turn", trace, devices[d]) EXCEPT
                            !.task.device = d, !.task.onOff = onOff])} :
            Commit(w, t)

\* Govee.set_brightness is called, up to the first await
CallSetBrightness(t, args, trace) ==
    /\ Free(t)
    /\ \E d \in DOMAIN devices, brightness \in args :
        \E w \in {set_brightness(
                    [called(t, "set_brightness", trace, devices[d]) EXCEPT
                        !.task.device = d,
                        !.task.brightness = brightness])} :
            Commit(w, t)

\* Govee.set_color_temp is called, up to the first await
CallSetColorTemp(t, args, trace) ==
    /\ Free(t)
    /\ \E d \in DOMAIN devices, color_temp \in args :
        \E w \in {set_color_temp(
                    [called(t, "set_color_temp", trace, devices[d]) EXCEPT
                        !.task.device = d,
                        !.task.color_temp = color_temp])} :
            Commit(w, t)

\* Govee.set_color is called, up to the first await
CallSetColor(t, args, trace) ==
    /\ Free(t)
    /\ \E d \in DOMAIN devices, color \in args :
        \E w \in {set_color(
                    [called(t, "set_color", trace, devices[d]) EXCEPT
                        !.task.device = d, !.task.color = color])} :
            Commit(w, t)

\* Govee.get_devices is called, up to the first await
CallGetDevices(t, trace) ==
    /\ Free(t)
    /\ \E w \in {get_devices(called(t, "get_devices", trace, devices))} :
        Commit(w, t)

\* Govee.get_states is called, up to the first await
CallGetStates(t, trace) ==
    /\ Free(t)
    /\ \E w \in {get_states(
                    [called(t, "get_states", trace, devices) EXCEPT
                        !.task.rest = devices_in_order(devices),
                        !.task.log.resps =
                            IF trace
                            THEN [d \in DOMAIN devices |-> NoStateResponse]
                            ELSE << >>])} :
        Commit(w, t)

\* Govee.ping is called, up to the first await
CallPing(t, trace) ==
    /\ Free(t)
    /\ \E w \in {ping(called(t, "ping", trace, devices))} :
        Commit(w, t)

\* Govee.check_connection is called, up to the first await
CallCheckConnection(t, trace) ==
    /\ Free(t)
    /\ \E w \in {ping(called(t, "check_connection", trace, devices))} :
        Commit(w, t)

\* the sleep of coroutine t is over and the event loop resumes it, up to
\* the next await
Wake(t) ==
    /\ tasks[t].pc = "sleep"
    /\ now >= tasks[t].wake
    /\ \E w \in {woken(World(t))} : Commit(w, t)

\* the transport answers the request of coroutine t: the status line and
\* the headers of one of the answers, or a ClientError (status -1)
Answer(t, answers) ==
    /\ tasks[t].pc = "request"
    /\ \E resp \in answers :
        \E w \in {answered(api_request_answered(World(t), resp), resp)} :
            /\ w.limit - w.limit_remaining <= MaxSpent
            /\ Commit(w, t)

\* the answer to a control request
Respond(t, answers) ==
    /\ tasks[t].call \in Commands
    /\ Answer(t, answers)

\* the answer to the state request of a poll
RespondState(t, answers) ==
    /\ tasks[t].call = "get_states"
    /\ Answer(t, answers)

\* the answer to a devices request
RespondDevices(t, answers) ==
    /\ tasks[t].call = "get_devices"
    /\ Answer(t, answers)

\* the answer to a ping
RespondPing(t, answers) ==
    /\ tasks[t].call \in {"ping", "check_connection"}
    /\ Answer(t, answers)

\* the body of the answer to a control request is read: the message of
\* an accepted request, the text of a refused one
Body(t, messages) ==
    /\ tasks[t].pc = "body"
    /\ tasks[t].call \in Commands
    /\ \E message \in IF tasks[t].status = 200 THEN messages ELSE {""} :
        \E w \in {control_read(World(t), message)} : Commit(w, t)

\* the body of the answer to a state request is read
BodyState(t, states) ==
    /\ tasks[t].pc = "body"
    /\ tasks[t].call = "get_states"
    /\ \E resp \in IF tasks[t].status = 200
                   THEN states
                   ELSE {[NoStateResponse EXCEPT !.status = tasks[t].status]} :
        \E w \in {state_read(World(t), resp)} : Commit(w, t)

\* the body of the answer to a devices request is read
BodyDevices(t, listings) ==
    /\ tasks[t].pc = "body"
    /\ tasks[t].call = "get_devices"
    /\ \E listing \in IF tasks[t].status = 200 THEN listings ELSE {{}} :
        \E w \in {get_devices_read(World(t), listing)} : Commit(w, t)

\* the text of the answer to a ping is read
BodyPing(t, texts) ==
    /\ tasks[t].pc = "body"
    /\ tasks[t].call \in {"ping", "check_connection"}
    /\ \E message \in IF tasks[t].status = 200 THEN texts ELSE {""} :
        \E w \in {ping_read(World(t), message)} : Commit(w, t)

\* the backing store's read() returns its content to coroutine t
ReadDone(t) ==
    /\ tasks[t].pc = "read"
    /\ \E w \in {read_returned([World(t) EXCEPT !.learned_info = storage,
                                               !.is_cached = TRUE])} :
        Commit(w, t)

\* the backing store's write() returns to coroutine t, or raises
WriteDone(t) ==
    /\ tasks[t].pc = "write"
    /\ \E w \in {write_returned(World(t))} : Commit(w, t)

\* the setter of Govee.config_offline_is_off
SetConfigOfflineIsOff(trace) ==
    \E val \in {"None", "True", "False"} :
        /\ config_offline_is_off' = val
        /\ Record(trace, [op |-> "config_offline_is_off", val |-> val])
        /\ UNCHANGED <<devices, ignore_fields, online, learned_info,
                       is_cached, storage, now, limit, limit_remaining,
                       limit_reset, rate_limit_on, tasks, read_call_count,
                       write_fails>>

\* the setter of Govee.rate_limit_on
SetRateLimitOn(vals, trace) ==
    \E val \in vals :
        /\ rate_limit_on' = IF val > limit \/ val < 1 THEN rate_limit_on ELSE val
        /\ Record(trace,
                  [op |-> "rate_limit_on", val |-> val,
                   raised |-> IF val > limit \/ val < 1
                              THEN "GoveeError" ELSE "None"])
        /\ UNCHANGED <<devices, ignore_fields, config_offline_is_off, online,
                       learned_info, is_cached, storage, now, limit,
                       limit_remaining, limit_reset, tasks, read_call_count,
                       write_fails>>

\* Govee.ignore_device_attributes
IgnoreDeviceAttributes(strings, trace) ==
    \E ignore_str \in strings :
        \E r \in {parse_ignore(ignore_str, NoIgnoreFields)} :
            /\ ignore_fields' = IF r.raised = "None" THEN r.ignore_fields
                                ELSE ignore_fields
            /\ Record(trace,
                      [op |-> "ignore_device_attributes",
                       ignore_str |-> ignore_str, raised |-> r.raised,
                       pre |-> ignore_fields])
            /\ UNCHANGED <<devices, config_offline_is_off, online,
                           learned_info, is_cached, storage, now, limit,
                           limit_remaining, limit_reset, rate_limit_on,
                           tasks, read_call_count, write_fails>>

\* the backing store starts or stops raising in write()
BreakStorage ==
    /\ write_fails' = ~write_fails
    /\ last' = Keep(last)
    /\ UNCHANGED <<devices, ignore_fields, config_offline_is_off, online,
                   learned_info, is_cached, storage, now, limit,
                   limit_remaining, limit_reset, rate_limit_on, tasks,
                   read_call_count>>

\* the session ends (Govee.close) and a new client is constructed
\* (Govee.__init__) on a new storage object over the same backing store:
\* only what write() persisted is left of the previous session
Restart ==
    /\ devices' = [d \in {} |-> 0]
    /\ ignore_fields' = NoIgnoreFields
    /\ config_offline_is_off' = "None"
    /\ online' = TRUE
    /\ learned_info' = [d \in {} |-> 0]
    /\ is_cached' = FALSE
    /\ limit' = 100
    /\ limit_remaining' = 100
    /\ limit_reset' = 0
    /\ rate_limit_on' = 5
    /\ tasks' = [t \in TaskIds |-> NoTask]
    /\ read_call_count' = 0
    /\ last' = [op |-> "restart", pre |-> devices]
    /\ UNCHANGED <<storage, now, write_fails>>
----------------------------------------------------------------------------
(* The brightness commands: discovery, power and brightness calls of one   *)
(* caller, each call recorded when it returns.                             *)

\* every status, with headers that leave the budget full
AnyAnswers == Answers(Statuses, {PlentyHeaders})

\* the listings of a devices answer: any part of the account
AnyListings == SUBSET DeviceIds

NextBrightness ==
    \/ Tick
    \/ Alone /\ \E t \in TaskIds : CallGetDevices(t, TRUE)
    \/ Alone /\ \E t \in TaskIds : CallTurn(t, TRUE)
    \/ Alone /\ \E t \in TaskIds : CallSetBrightness(t, BrightnessArgs, TRUE)
    \/ \E t \in TaskIds : Wake(t)
    \/ \E t \in TaskIds : Respond(t, AnyAnswers)
    \/ \E t \in TaskIds : Body(t, ControlMessages)
    \/ \E t \in TaskIds : RespondDevices(t, AnyAnswers)
    \/ \E t \in TaskIds : BodyDevices(t, AnyListings)
    \/ \E t \in TaskIds : ReadDone(t)
    \/ \E t \in TaskIds : WriteDone(t)

SpecBrightness == Init /\ [][NextBrightness]_vars

----------------------------------------------------------------------------
(* Polling: discovery, power calls, state polls and the offline option of  *)
(* one caller.                                                             *)

PollStates ==
    StateAnswers(OnlineValues, {42, 142}, {JSON_STATE_COLOR}, {0})

\* a request that the API accepts
AcceptedAnswers == Answers({200}, {PlentyHeaders})

\* the body of a command that was carried out
SuccessMessages == {"Success"}

\* the listing of the whole account of one device
FullListing == {DeviceIds}

\* the listing of both devices of the account
AccountListing == {AccountDeviceIds}

NextPoll ==
    \/ Tick
    \/ Alone /\ \E t \in TaskIds : CallGetDevices(t, TRUE)
    \/ Alone /\ \E t \in TaskIds : CallTurn(t, TRUE)
    \/ Alone /\ \E t \in TaskIds : CallGetStates(t, TRUE)
    \/ Alone /\ SetConfigOfflineIsOff(TRUE)
    \/ \E t \in TaskIds : Wake(t)
    \/ \E t \in TaskIds : Respond(t, AcceptedAnswers)
    \/ \E t \in TaskIds : Body(t, SuccessMessages)
    \/ \E t \in TaskIds : RespondState(t, AnyAnswers)
    \/ \E t \in TaskIds : BodyState(t, PollStates)
    \/ \E t \in TaskIds : RespondDevices(t, AcceptedAnswers)
    \/ \E t \in TaskIds : BodyDevices(t, FullListing)
    \/ \E t \in TaskIds : ReadDone(t)
    \/ \E t \in TaskIds : WriteDone(t)

SpecPoll == Init /\ [][NextPoll]_vars

----------------------------------------------------------------------------
(* Ignored attributes: discovery, brightness calls, state polls and the    *)
(* ignore option of one caller.                                            *)

IgnoreBrightnessArgs == {0, 142}

IgnorePollStates == StateAnswers({"true"}, {42}, {JSON_STATE_COLOR}, {0})

InitIgnore == Init /\ storage = LEARNED_NOTHING

NextIgnore ==
    \/ Tick
    \/ Alone /\ \E t \in TaskIds : CallGetDevices(t, TRUE)
    \/ Alone /\ \E t \in TaskIds : CallTurn(t, TRUE)
    \/ Alone /\ \E t \in TaskIds :
          CallSetBrightness(t, IgnoreBrightnessArgs, TRUE)
    \/ Alone /\ \E t \in TaskIds : CallGetStates(t, TRUE)
    \/ Alone /\ IgnoreDeviceAttributes(IgnoreStrings, TRUE)
    \/ \E t \in TaskIds : Wake(t)
    \/ \E t \in TaskIds : Respond(t, AcceptedAnswers)
    \/ \E t \in TaskIds : Body(t, SuccessMessages)
    \/ \E t \in TaskIds : RespondState(t, AnyAnswers)
    \/ \E t \in TaskIds : BodyState(t, IgnorePollStates)
    \/ \E t \in TaskIds : RespondDevices(t, AcceptedAnswers)
    \/ \E t \in TaskIds : BodyDevices(t, FullListing)
    \/ \E t \in TaskIds : ReadDone(t)
    \/ \E t \in TaskIds : WriteDone(t)

SpecIgnore == InitIgnore /\ [][NextIgnore]_vars

----------------------------------------------------------------------------
(* The rate limiter: answers with and without rate-limit headers, some of  *)
(* them unparsable, and a threshold that is reconfigured.                   *)

LimitHeaders ==
    {NoHeaders}
    \cup RateLimitHeaders({8}, {5, 6}, {2, 200}, {"none"})
    \cup RateLimitHeaders({8}, {5}, {1}, {"total", "reset"})

LimitPollStates == StateAnswers({"true"}, {142}, {JSON_STATE_COLOR}, {0})

LimitThresholds == {0, 4, 5, 9}

\* accepted requests, with each of the rate-limit headers
LimitAnswers == Answers({200}, LimitHeaders)

\* state answers, which carry no rate-limit headers here
LimitStateAnswers == Answers({200}, {NoHeaders})

NextRateLimit ==
    \/ Tick
    \/ Alone /\ \E t \in TaskIds : CallGetDevices(t, TRUE)
    \/ Alone /\ \E t \in TaskIds : CallTurn(t, TRUE)
    \/ Alone /\ \E t \in TaskIds : CallGetStates(t, TRUE)
    \/ Alone /\ SetRateLimitOn(LimitThresholds, TRUE)
    \/ \E t \in TaskIds : Wake(t)
    \/ \E t \in TaskIds : Respond(t, LimitAnswers)
    \/ \E t \in TaskIds : Body(t, SuccessMessages)
    \/ \E t \in TaskIds : RespondState(t, LimitStateAnswers)
    \/ \E t \in TaskIds : BodyState(t, LimitPollStates)
    \/ \E t \in TaskIds : RespondDevices(t, LimitAnswers)
    \/ \E t \in TaskIds : BodyDevices(t, FullListing)
    \/ \E t \in TaskIds : ReadDone(t)
    \/ \E t \in TaskIds : WriteDone(t)

SpecRateLimit == InitIgnore /\ [][NextRateLimit]_vars

----------------------------------------------------------------------------
(* Commands that run concurrently: after one discovery two coroutines call *)
(* turn_on and turn_off on the device; the event loop switches between     *)
(* them where the code awaits.                                             *)

\* an answer that leaves five calls until the reset at second 2
SpentHeaders == RateLimitHeaders({8}, {5}, {2}, {"none"})

CommandAnswers == Answers({200, 400}, {PlentyHeaders} \cup SpentHeaders)

NextCommands ==
    \/ Tick
    \/ (Alone /\ DOMAIN devices = {})
          /\ \E t \in TaskIds : CallGetDevices(t, FALSE)
    \/ \E t \in TaskIds : CallTurn(t, FALSE)
    \/ \E t \in TaskIds : Wake(t)
    \/ \E t \in TaskIds : Respond(t, CommandAnswers)
    \/ \E t \in TaskIds : Body(t, SuccessMessages)
    \/ \E t \in TaskIds : RespondDevices(t, AcceptedAnswers)
    \/ \E t \in TaskIds : BodyDevices(t, FullListing)
    \/ \E t \in TaskIds : ReadDone(t)

SpecCommands == InitIgnore /\ [][NextCommands]_vars

\* time advances, and the event loop resumes a coroutine whose sleep is over
SpecCommandsFair ==
    /\ SpecCommands
    /\ WF_vars(Tick)
    /\ \A t \in TaskIds : WF_vars(Wake(t))

----------------------------------------------------------------------------
(* Connectivity: requests that fail at transport level, with and without   *)
(* the attribute online of source API in the ignore list.                  *)

ClientAnswers == Answers({200, 400, -1}, {PlentyHeaders})

ClientPollStates ==
    StateAnswers({"true", "false"}, {0, 100, 254}, {JSON_STATE_COLOR}, {0})

OnlineIgnoreStrings == {<< >>, << <<"API", "online">> >>}

\* a request that is answered or fails in transport
CarriedAnswers == Answers({200, -1}, {PlentyHeaders})

NextOnline ==
    \/ Tick
    \/ Alone /\ \E t \in TaskIds : CallGetDevices(t, TRUE)
    \/ Alone /\ \E t \in TaskIds : CallTurn(t, TRUE)
    \/ Alone /\ \E t \in TaskIds : CallGetStates(t, TRUE)
    \/ Alone /\ \E t \in TaskIds : CallPing(t, TRUE)
    \/ Alone /\ \E t \in TaskIds : CallCheckConnection(t, TRUE)
    \/ Alone /\ IgnoreDeviceAttributes(OnlineIgnoreStrings, TRUE)
    \/ \E t \in TaskIds : Wake(t)
    \/ \E t \in TaskIds : Respond(t, ClientAnswers)
    \/ \E t \in TaskIds : Body(t, SuccessMessages)
    \/ \E t \in TaskIds : RespondState(t, AnyAnswers)
    \/ \E t \in TaskIds : BodyState(t, ClientPollStates)
    \/ \E t \in TaskIds : RespondDevices(t, CarriedAnswers)
    \/ \E t \in TaskIds : BodyDevices(t, FullListing)
    \/ \E t \in TaskIds : RespondPing(t, AnyAnswers)
    \/ \E t \in TaskIds : BodyPing(t, PingTexts)
    \/ \E t \in TaskIds : ReadDone(t)
    \/ \E t \in TaskIds : WriteDone(t)

SpecOnline == InitIgnore /\ [][NextOnline]_vars

----------------------------------------------------------------------------
(* Learning: discoveries of both devices of the account, brightness        *)
(* commands on either and polls, on every initial content of the backing   *)
(* store: of the first device, of the second, of both, or empty.           *)

LearningBrightnessArgs == {1, 142}

\* a command that is accepted or refused with 400
LearningAnswers == Answers({200, 400}, {PlentyHeaders})

LearningPollStates ==
    StateAnswers({"true"}, {42, 142}, {JSON_STATE_COLOR}, {0})

\* a store that a session on the second device alone wrote
LEARNED_OTHER ==
    [d \in {"D2"} |-> [GoveeLearnedInfo EXCEPT !.set_brightness_max = 254]]

\* a store that a session on both devices wrote
LEARNED_BOTH ==
    [d \in AccountDeviceIds |->
        IF d = "D1" THEN LEARNED_S254[d] ELSE LEARNED_S100_G254["D1"]]

LearningStorage == InitialStorage \cup {LEARNED_OTHER, LEARNED_BOTH}

InitLearning == Start(LearningStorage)

NextLearning ==
    \/ Tick
    \/ Alone /\ \E t \in TaskIds : CallGetDevices(t, TRUE)
    \/ Alone /\ \E t \in TaskIds :
          CallSetBrightness(t, LearningBrightnessArgs, TRUE)
    \/ Alone /\ \E t \in TaskIds : CallGetStates(t, TRUE)
    \/ \E t \in TaskIds : Wake(t)
    \/ \E t \in TaskIds : Respond(t, LearningAnswers)
    \/ \E t \in TaskIds : Body(t, SuccessMessages)
    \/ \E t \in TaskIds : RespondState(t, LearningAnswers)
    \/ \E t \in TaskIds : BodyState(t, LearningPollStates)
    \/ \E t \in TaskIds : RespondDevices(t, AcceptedAnswers)
    \/ \E t \in TaskIds : BodyDevices(t, AccountListing)
    \/ \E t \in TaskIds : ReadDone(t)
    \/ \E t \in TaskIds : WriteDone(t)

SpecLearning == InitLearning /\ [][NextLearning]_vars

----------------------------------------------------------------------------
(* Learning on a backing store whose write() may raise. *)

NextStorage ==
    \/ Tick
    \/ Alone /\ BreakStorage
    \/ Alone /\ \E t \in TaskIds : CallGetDevices(t, TRUE)
    \/ Alone /\ \E t \in TaskIds :
          CallSetBrightness(t, IgnoreBrightnessArgs, TRUE)
    \/ Alone /\ \E t \in TaskIds : CallGetStates(t, TRUE)
    \/ \E t \in TaskIds : Wake(t)
    \/ \E t \in TaskIds : Respond(t, AcceptedAnswers)
    \/ \E t \in TaskIds : Body(t, SuccessMessages)
    \/ \E t \in TaskIds : RespondState(t, AnyAnswers)
    \/ \E t \in TaskIds : BodyState(t, IgnorePollStates)
    \/ \E t \in TaskIds : RespondDevices(t, AcceptedAnswers)
    \/ \E t \in TaskIds : BodyDevices(t, FullListing)
    \/ \E t \in TaskIds : ReadDone(t)
    \/ \E t \in TaskIds : WriteDone(t)

SpecStorage == InitIgnore /\ [][NextStorage]_vars

----------------------------------------------------------------------------
(* Discoveries that run concurrently: two coroutines call get_devices.     *)

NextDiscovery ==
    \/ Tick
    \/ \E t \in TaskIds : CallGetDevices(t, FALSE)
    \/ \E t \in TaskIds : RespondDevices(t, CarriedAnswers)
    \/ \E t \in TaskIds : BodyDevices(t, AnyListings)
    \/ \E t \in TaskIds : ReadDone(t)

SpecDiscovery == Init /\ [][NextDiscovery]_vars

----------------------------------------------------------------------------
(* The five commands: discovery, then power, brightness, colour and colour *)
(* temperature calls with valid and invalid arguments.                     *)

\* colour temperatures callers ask for (the valid range is 2000 .. 9000)
ColorTempArgs == {1999, 9000, 9001}

\* colours callers ask for: (r, g, b), each within 0 .. 255
ColorArgs ==
    {<<255, 0, 0>>, <<256, 0, 0>>, <<0, -1, 0>>, <<0, 0, 256>>, <<1, 2>>}

\* brightness values around the valid range 0 .. 254
ColorBrightnessArgs == {-1, 142, 255}

InitColor ==
    Init /\ storage \in {LEARNED_NOTHING, LEARNED_TURN_BEFORE_BRIGHTNESS}

NextColor ==
    \/ Tick
    \/ Alone /\ \E t \in TaskIds : CallGetDevices(t, TRUE)
    \/ Alone /\ \E t \in TaskIds : CallTurn(t, TRUE)
    \/ Alone /\ \E t \in TaskIds :
          CallSetBrightness(t, ColorBrightnessArgs, TRUE)
    \/ Alone /\ \E t \in TaskIds : CallSetColorTemp(t, ColorTempArgs, TRUE)
    \/ Alone /\ \E t \in TaskIds : CallSetColor(t, ColorArgs, TRUE)
    \/ \E t \in TaskIds : Wake(t)
    \/ \E t \in TaskIds : Respond(t, AnyAnswers)
    \/ \E t \in TaskIds : Body(t, ControlMessages)
    \/ \E t \in TaskIds : RespondDevices(t, AcceptedAnswers)
    \/ \E t \in TaskIds : BodyDevices(t, FullListing)
    \/ \E t \in TaskIds : ReadDone(t)
    \/ \E t \in TaskIds : WriteDone(t)

SpecColor == InitColor /\ [][NextColor]_vars

----------------------------------------------------------------------------
(* Concurrent callers: after one discovery two coroutines switch the       *)
(* device, set its brightness and poll it, each suspended at every await   *)
(* of its call while the other runs.                                       *)

ConcurrentBrightnessArgs == {142}

NextConcurrent ==
    \/ Tick
    \/ (Alone /\ DOMAIN devices = {})
          /\ \E t \in TaskIds : CallGetDevices(t, FALSE)
    \/ \E t \in TaskIds : CallTurn(t, FALSE)
    \/ \E t \in TaskIds :
          CallSetBrightness(t, ConcurrentBrightnessArgs, FALSE)
    \/ \E t \in TaskIds : CallGetStates(t, FALSE)
    \/ \E t \in TaskIds : Wake(t)
    \/ \E t \in TaskIds : Respond(t, LearningAnswers)
    \/ \E t \in TaskIds : Body(t, SuccessMessages)
    \/ \E t \in TaskIds : RespondState(t, AcceptedAnswers)
    \/ \E t \in TaskIds : BodyState(t, LearningPollStates)
    \/ \E t \in TaskIds : RespondDevices(t, AcceptedAnswers)
    \/ \E t \in TaskIds : BodyDevices(t, FullListing)
    \/ \E t \in TaskIds : ReadDone(t)
    \/ \E t \in TaskIds : WriteDone(t)

SpecConcurrent == InitColor /\ [][NextConcurrent]_vars

----------------------------------------------------------------------------
(* A discovery among the commands or the polls: two coroutines call        *)
(* get_devices and set_brightness, or get_devices and get_states; the      *)
(* get_devices of one assigns a new registry while the other is suspended  *)
(* in a command or a poll, which goes on with the GoveeDevice object it    *)
(* was given.                                                              *)

\* the polls that go with the commands are answered with a state
DetachedStates ==
    {r \in StateAnswers({"true"}, {142}, {JSON_STATE_COLOR}, {0}) :
        r.powerState = "on"}

\* a devices request that is answered, refused with 429, or that raised
\* ClientError
DetachedAnswers == Answers({200, 429, -1}, {PlentyHeaders})

NextDetached ==
    \/ Tick
    \/ \E t \in TaskIds : CallGetDevices(t, FALSE)
    \/ \E t \in TaskIds :
          CallSetBrightness(t, ConcurrentBrightnessArgs, FALSE)
    \/ \E t \in TaskIds : CallGetStates(t, FALSE)
    \/ \E t \in TaskIds : Wake(t)
    \/ \E t \in TaskIds : Respond(t, AcceptedAnswers)
    \/ \E t \in TaskIds : Body(t, SuccessMessages)
    \/ \E t \in TaskIds : RespondState(t, AcceptedAnswers)
    \/ \E t \in TaskIds : BodyState(t, DetachedStates)
    \/ \E t \in TaskIds : RespondDevices(t, AcceptedAnswers)
    \/ \E t \in TaskIds : BodyDevices(t, FullListing)
    \/ \E t \in TaskIds : ReadDone(t)
    \/ \E t \in TaskIds : WriteDone(t)

SpecDetached == InitIgnore /\ [][NextDetached]_vars

NextDetachedPoll ==
    \/ Tick
    \/ \E t \in TaskIds : CallGetDevices(t, FALSE)
    \/ \E t \in TaskIds : CallGetStates(t, FALSE)
    \/ \E t \in TaskIds : RespondState(t, ClientAnswers)
    \/ \E t \in TaskIds : BodyState(t, DetachedStates)
    \/ \E t \in TaskIds : RespondDevices(t, DetachedAnswers)
    \/ \E t \in TaskIds : BodyDevices(t, FullListing)
    \/ \E t \in TaskIds : ReadDone(t)
    \/ \E t \in TaskIds : WriteDone(t)

SpecDetachedPoll == InitIgnore /\ [][NextDetachedPoll]_vars

----------------------------------------------------------------------------
(* Sessions: both devices of the account are discovered, their brightness  *)
(* is set, they are polled, and the client is restarted on the backing     *)
(* store the previous session wrote.                                       *)

\* the polls are answered, with a brightness below and one above 100
RestartPollStates ==
    {r \in StateAnswers({"true"}, {42, 142}, {JSON_STATE_COLOR}, {0}) :
        r.powerState = "on"}

NextRestart ==
    \/ Tick
    \/ Alone /\ \E t \in TaskIds : CallGetDevices(t, TRUE)
    \/ Alone /\ \E t \in TaskIds :
          CallSetBrightness(t, ConcurrentBrightnessArgs, TRUE)
    \/ Alone /\ \E t \in TaskIds : CallGetStates(t, TRUE)
    \/ Alone /\ Restart
    \/ \E t \in TaskIds : Wake(t)
    \/ \E t \in TaskIds : Respond(t, LearningAnswers)
    \/ \E t \in TaskIds : Body(t, SuccessMessages)
    \/ \E t \in TaskIds : RespondState(t, AcceptedAnswers)
    \/ \E t \in TaskIds : BodyState(t, RestartPollStates)
    \/ \E t \in TaskIds : RespondDevices(t, AcceptedAnswers)
    \/ \E t \in TaskIds : BodyDevices(t, AccountListing)
    \/ \E t \in TaskIds : ReadDone(t)
    \/ \E t \in TaskIds : WriteDone(t)

SpecRestart == InitIgnore /\ [][NextRestart]_vars

----------------------------------------------------------------------------
(* Two devices, one of them not retrievable: discovery, power calls and    *)
(* get_states over the whole registry.                                     *)

AccountPollStates ==
    StateAnswers({"true", "false"}, {42}, StateColors, StateColorTemps)

NextAccount ==
    \/ Tick
    \/ Alone /\ \E t \in TaskIds : CallGetDevices(t, TRUE)
    \/ Alone /\ \E t \in TaskIds : CallTurn(t, TRUE)
    \/ Alone /\ \E t \in TaskIds : CallGetStates(t, TRUE)
    \/ \E t \in TaskIds : Wake(t)
    \/ \E t \in TaskIds : Respond(t, AcceptedAnswers)
    \/ \E t \in TaskIds : Body(t, SuccessMessages)
    \/ \E t \in TaskIds : RespondState(t, AnyAnswers)
    \/ \E t \in TaskIds : BodyState(t, AccountPollStates)
    \/ \E t \in TaskIds : RespondDevices(t, AcceptedAnswers)
    \/ \E t \in TaskIds : BodyDevices(t, AccountListing)
    \/ \E t \in TaskIds : ReadDone(t)
    \/ \E t \in TaskIds : WriteDone(t)

SpecAccount == InitIgnore /\ [][NextAccount]_vars

----------------------------------------------------------------------------
(* The rate limiter under concurrency: two coroutines call get_devices,    *)
(* turn_on and turn_off; the answers carry a budget that is used up until  *)
(* second 1 or second 2, or a full one.                                    *)

SharedLimitHeaders ==
    {PlentyHeaders} \cup RateLimitHeaders({8}, {5}, {1, 2}, {"none"})

\* accepted requests, with a full or a used-up budget
SharedLimitAnswers == Answers({200}, SharedLimitHeaders)

NextSharedLimit ==
    \/ Tick
    \/ \E t \in TaskIds : CallGetDevices(t, FALSE)
    \/ \E t \in TaskIds : CallTurn(t, FALSE)
    \/ \E t \in TaskIds : Wake(t)
    \/ \E t \in TaskIds : Respond(t, SharedLimitAnswers)
    \/ \E t \in TaskIds : Body(t, SuccessMessages)
    \/ \E t \in TaskIds : RespondDevices(t, SharedLimitAnswers)
    \/ \E t \in TaskIds : BodyDevices(t, FullListing)
    \/ \E t \in TaskIds : ReadDone(t)

SpecSharedLimit == InitIgnore /\ [][NextSharedLimit]_vars

----------------------------------------------------------------------------
(* Polls and commands that overlap: after one discovery two coroutines     *)
(* call get_states, turn_on and turn_off on the device.                    *)

NextOverlap ==
    \/ Tick
    \/ (Alone /\ DOMAIN devices = {})
          /\ \E t \in TaskIds : CallGetDevices(t, FALSE)
    \/ \E t \in TaskIds : CallTurn(t, FALSE)
    \/ \E t \in TaskIds : CallGetStates(t, FALSE)
    \/ \E t \in TaskIds : Wake(t)
    \/ \E t \in TaskIds : Respond(t, AcceptedAnswers)
    \/ \E t \in TaskIds : Body(t, SuccessMessages)
    \/ \E t \in TaskIds : RespondState(t, AcceptedAnswers)
    \/ \E t \in TaskIds : BodyState(t, IgnorePollStates)
    \/ \E t \in TaskIds : RespondDevices(t, AcceptedAnswers)
    \/ \E t \in TaskIds : BodyDevices(t, FullListing)
    \/ \E t \in TaskIds : ReadDone(t)
    \/ \E t \in TaskIds : WriteDone(t)

SpecOverlap == InitIgnore /\ [][NextOverlap]_vars

----------------------------------------------------------------------------
(* The brightness of the records under concurrency: after one discovery   *)
(* two coroutines call set_brightness and get_states on the device, on     *)
(* every initial content of the backing store.                             *)

ClientBrightnessArgs == {0, 254}

ClientStates ==
    {r \in StateAnswers({"true"}, {100, 254}, {JSON_STATE_COLOR}, {0}) :
        r.powerState = "off"}

Next ==
    \/ Tick
    \/ (Alone /\ DOMAIN devices = {})
          /\ \E t \in TaskIds : CallGetDevices(t, FALSE)
    \/ \E t \in TaskIds : CallSetBrightness(t, ClientBrightnessArgs, FALSE)
    \/ \E t \in TaskIds : CallGetStates(t, FALSE)
    \/ \E t \in TaskIds : Wake(t)
    \/ \E t \in TaskIds : Respond(t, LearningAnswers)
    \/ \E t \in TaskIds : Body(t, SuccessMessages)
    \/ \E t \in TaskIds : RespondState(t, AcceptedAnswers)
    \/ \E t \in TaskIds : BodyState(t, ClientStates)
    \/ \E t \in TaskIds : RespondDevices(t, AcceptedAnswers)
    \/ \E t \in TaskIds : BodyDevices(t, FullListing)
    \/ \E t \in TaskIds : ReadDone(t)
    \/ \E t \in TaskIds : WriteDone(t)

Spec == Init /\ [][Next]_vars


----------------------------------------------------------------------------
(* Reading the recorded call. *)

IsBrightnessRequest(m) == m.name = "brightness"

\* the brightness requests the last call sent, in order
BrightnessRequests == SelectSeq(last.sent, IsBrightnessRequest)

\* the API answered the request with 200 and the message Success
Accepted(m) == m.status = 200 /\ m.message = "Success"

\* the last call sent a state request for d
StateRequested(d) ==
    \E i \in 1..Len(last.sent) :
        last.sent[i].name = "state" /\ last.sent[i].value = d

\* the last call was a get_states that came to a device
Polled == last.op = "get_states" /\ last.device \in DOMAIN last.pre

\* the last call polled its last device and the answer was a state
PolledState ==
    /\ Polled
    /\ StateRequested(last.device)
    /\ last.resps[last.device].status = 200

\* the record of the device of the last call when the call began
Pre == IF last.op = "get_states" THEN last.pre[last.device] ELSE last.pre

\* the answer to the state request of the last call
Resp == last.resps[last.device]

\* the last call polled its device and the answer reported it offline
PolledOffline == PolledState /\ Resp.online \in {"false", "False"}

\* the offline policy forces the polled device off
ForcedOff ==
    \/ config_offline_is_off = "True"
    \/ config_offline_is_off = "None" /\ Pre.config_offline_is_off

----------------------------------------------------------------------------
(* Properties of the brightness commands (SpecBrightness). *)

\* set_brightness(b), b > 100, on a device of unknown set_brightness_max:
\* the request with b was rejected with 400 and the retry was accepted
C1Case ==
    /\ last.op = "set_brightness"
    /\ last.brightness > 100
    /\ last.pre.learned_set_brightness_max = None
    /\ Len(BrightnessRequests) = 2
    /\ BrightnessRequests[1].value = last.brightness
    /\ BrightnessRequests[1].status = 400
    /\ BrightnessRequests[2].value <= 100
    /\ Accepted(BrightnessRequests[2])

\* C1 as stated: after a rejected first request and an accepted retry on the
\* 0-100 scale, the call succeeds, set_brightness_max = 100 is recorded and
\* persisted, and the cached brightness equals the requested b.
C1RetryCachesRequested ==
    C1Case =>
        /\ last.success
        /\ devices[last.device].learned_set_brightness_max = 100
        /\ last.device \in DOMAIN storage
        /\ storage[last.device].set_brightness_max = 100
        /\ devices[last.device].brightness = last.brightness

\* C1 amended: after a rejected first request and an accepted retry on the
\* 0-100 scale, the call succeeds, set_brightness_max = 100 is recorded and
\* persisted, and the cached brightness is the value the retry sent, scaled
\* back with ceiling: ceil(sent * 254 / 100), 140 for a requested 142.
C1RetryCachesScaledBack ==
    C1Case =>
        /\ last.success
        /\ devices[last.device].learned_set_brightness_max = 100
        /\ last.device \in DOMAIN storage
        /\ storage[last.device].set_brightness_max = 100
        /\ devices[last.device].brightness =
              (BrightnessRequests[2].value * 254 + 99) \div 100
        /\ last.brightness = 142 => devices[last.device].brightness = 140

C1Witness ==
    /\ C1Case
    /\ last.brightness = 142
    /\ BrightnessRequests[2].value = 55
    /\ last.success
    /\ devices[last.device].brightness = 140
    /\ storage[last.device].set_brightness_max = 100

\* C2: once set_brightness_max is known (100 or 254), a set_brightness whose
\* request is rejected with 400 sends exactly one request, returns failure
\* with the error and leaves set_brightness_max as it was.
C2NoRetryOnceKnown ==
    ( /\ last.op = "set_brightness"
      /\ last.pre.learned_set_brightness_max \in {100, 254}
      /\ Len(BrightnessRequests) >= 1
      /\ BrightnessRequests[1].status = 400 )
    =>  /\ Len(BrightnessRequests) = 1
        /\ ~last.success
        /\ last.err = "API-Error 400"
        /\ devices[last.device].learned_set_brightness_max =
              last.pre.learned_set_brightness_max

\* the retry of a known device: two requests, and a learned 254 became 100
C2Witness ==
    /\ last.op = "set_brightness"
    /\ last.pre.learned_set_brightness_max = 254
    /\ Len(BrightnessRequests) = 2
    /\ BrightnessRequests[1].status = 400
    /\ last.success
    /\ devices[last.device].learned_set_brightness_max = 100

\* C5: when a brightness request carrying a value above 100 is accepted,
\* set_brightness_max is 254 in the device record and in the persisted
\* map; when a request carrying 100 or less is accepted on the first attempt,
\* set_brightness_max in the record is what it was.
C5WideRangeLearned ==
    (last.op = "set_brightness" /\ Len(BrightnessRequests) >= 1) =>
        /\ \A i \in 1 .. Len(BrightnessRequests) :
              ( /\ BrightnessRequests[i].value > 100
                /\ BrightnessRequests[i].status = 200 )
              =>  /\ devices[last.device].learned_set_brightness_max = 254
                  /\ last.device \in DOMAIN storage
                  /\ storage[last.device].set_brightness_max = 254
        /\ ( /\ BrightnessRequests[1].value <= 100
             /\ BrightnessRequests[1].status = 200 )
           => devices[last.device].learned_set_brightness_max =
                 last.pre.learned_set_brightness_max

C5Witness ==
    /\ last.op = "set_brightness"
    /\ last.pre.learned_set_brightness_max = None
    /\ Len(BrightnessRequests) = 1
    /\ BrightnessRequests[1].value = 142
    /\ Accepted(BrightnessRequests[1])
    /\ devices[last.device].learned_set_brightness_max = 254
    /\ storage[last.device].set_brightness_max = 254

\* set_brightness(b), b in 0 .. 254, on a device whose set_brightness_max is 100
C6Case ==
    /\ last.op = "set_brightness"
    /\ last.pre.learned_set_brightness_max = 100
    /\ last.brightness \in 0 .. 254
    /\ Len(BrightnessRequests) >= 1

\* C6 as stated: with set_brightness_max = 100 the value sent for b is
\* b * 100 / 254 rounded up, at least 1 when b > 0, at most 100, 0 for b = 0.
C6SentRoundedUp ==
    C6Case =>
        \A i \in 1 .. Len(BrightnessRequests) :
            BrightnessRequests[i].value =
                IF last.brightness = 0 THEN 0
                ELSE LET up == (last.brightness * 100 + 253) \div 254
                     IN  IF up < 1 THEN 1 ELSE IF up > 100 THEN 100 ELSE up

\* C6 amended: with set_brightness_max = 100 the value sent for b is
\* b * 100 / 254 rounded down, at least 1 when b > 0, at most 100, 0 for b = 0
\* (55 for 142).
C6SentRoundedDown ==
    C6Case =>
        \A i \in 1 .. Len(BrightnessRequests) :
            /\ BrightnessRequests[i].value =
                  IF last.brightness = 0 THEN 0
                  ELSE LET down == (last.brightness * 100) \div 254
                       IN  IF down < 1 THEN 1 ELSE down
            /\ BrightnessRequests[i].value <= 100

C6Witness ==
    /\ C6Case
    /\ last.brightness = 142
    /\ BrightnessRequests[1].value = 55

\* C7: after a successful set_brightness on a device that uses the 0-100 set
\* scale, the cached brightness is ceil(sent * 254 / 100) of the value sent
\* (1 -> 1 -> 3, 0 -> 0 -> 0) and the cached power_state is true exactly when
\* that brightness is above 0.
C7CachedScaledBack ==
    ( /\ last.op = "set_brightness"
      /\ last.pre.learned_set_brightness_max = 100
      /\ last.success )
    =>  LET sent   == BrightnessRequests[Len(BrightnessRequests)].value
            cached == devices[last.device].brightness
        IN  /\ cached = (sent * 254 + 99) \div 100
            /\ devices[last.device].power_state = (cached > 0)
            /\ last.brightness = 1 => (sent = 1 /\ cached = 3)
            /\ last.brightness = 0 => (sent = 0 /\ cached = 0)

C7Witness ==
    /\ last.op = "set_brightness"
    /\ last.pre.learned_set_brightness_max = 100
    /\ last.success
    /\ last.brightness = 1
    /\ devices[last.device].brightness = 3
    /\ devices[last.device].power_state

----------------------------------------------------------------------------
(* Properties of the whole client (Spec). *)

\* C3: in every reachable state the cached brightness of every device of
\* the registry lies in 0 .. 254.
C3BrightnessRange ==
    \A d \in DOMAIN devices : devices[d].brightness \in 0 .. 254

\* a poll scaled a raw 100 up to the top of the range
C3Witness ==
    \E d \in DOMAIN devices :
        /\ devices[d].brightness = 254
        /\ devices[d].learned_get_brightness_max = 100
        /\ devices[d].source = API
        /\ devices[d].online
        /\ ~devices[d].power_state

----------------------------------------------------------------------------
(* Properties of polling (SpecPoll). *)

\* C4: a successful poll reporting raw brightness r sets an unknown
\* get_brightness_max to 254 when r > 100 and to 100 otherwise, widens 100 to
\* 254 when r > 100, leaves it alone otherwise, persists every change, and
\* caches floor(r * 254 / 100) when the resulting maximum is 100, r otherwise.
C4GetScaleLearned ==
    PolledState =>
        LET pre  == Pre.learned_get_brightness_max
            r    == Resp.brightness
            post == devices[last.device].learned_get_brightness_max
            cached == devices[last.device].brightness
        IN  /\ pre = None => post = IF r > 100 THEN 254 ELSE 100
            /\ (pre = 100 /\ r > 100) => post = 254
            /\ (pre # None /\ ~(pre = 100 /\ r > 100)) => post = pre
            /\ post # pre =>
                  /\ last.device \in DOMAIN storage
                  /\ storage[last.device].get_brightness_max = post
                  /\ last.writes = 1
            /\ cached = IF post = 100 THEN (r * 254) \div 100 ELSE r
            /\ (pre = None /\ r = 142) => (post = 254 /\ cached = 142)
            /\ (pre = None /\ r = 42) => (post = 100 /\ cached = 106)

C4Witness ==
    /\ PolledState
    /\ Pre.learned_get_brightness_max = None
    /\ Resp.brightness = 42
    /\ devices[last.device].learned_get_brightness_max = 100
    /\ storage[last.device].get_brightness_max = 100
    /\ devices[last.device].brightness = 106

\* C8: after a poll that reports the device offline, power_state is off when
\* the global option is true, or when it is unset and the device's flag is
\* true; with the global option false, or unset with the flag false, a device
\* that was on and is reported on stays on; online is false in every case.
C8OfflinePolicy ==
    PolledOffline =>
        /\ ForcedOff => ~devices[last.device].power_state
        /\ ( /\ ~ForcedOff
             /\ Pre.power_state
             /\ Resp.powerState = "on" )
           => devices[last.device].power_state
        /\ ~devices[last.device].online

\* the global option forces off a device whose own flag is false
C8Witness ==
    /\ PolledOffline
    /\ config_offline_is_off = "True"
    /\ ~Pre.config_offline_is_off
    /\ Pre.power_state
    /\ Resp.powerState = "on"
    /\ ~devices[last.device].power_state
    /\ ~devices[last.device].online

\* C9: after a poll that reports the device offline and that the policy does
\* not force off, the cached power_state is what it was before the poll,
\* whatever the answer carries, and online is false.
C9OfflineKeepsPowerState ==
    (PolledOffline /\ ~ForcedOff) =>
        /\ devices[last.device].power_state = Pre.power_state
        /\ ~devices[last.device].online

\* an offline answer carrying "off" switched off a device known to be on
C9Witness ==
    /\ PolledOffline
    /\ ~ForcedOff
    /\ Pre.power_state
    /\ Resp.powerState = "off"
    /\ ~devices[last.device].power_state

----------------------------------------------------------------------------
(* Properties of the ignored attributes (SpecIgnore). *)

\* the record's field is what it was when ignored for the source, and the
\* value of the update otherwise
Applied(source, field, val) ==
    devices[last.device][field] =
        IF field \in ignore_fields[source] THEN last.pre[field] ELSE val

\* the record's provenance and timestamp are what they were when every field
\* of the update is ignored, and those of the update otherwise
Stamped(source, fields) ==
    IF fields \subseteq ignore_fields[source]
    THEN /\ devices[last.device].source = Pre.source
         /\ devices[last.device].timestamp = Pre.timestamp
    ELSE /\ devices[last.device].source = source
         /\ devices[last.device].timestamp = now

\* C10: an update of an ignored (source, field) changes neither the field
\* nor the record's source and timestamp; the command or poll that carried
\* it succeeds all the same and its other fields are applied.
C10IgnoredUpdates ==
    /\ ( /\ last.op = "set_brightness"
         /\ Len(BrightnessRequests) = 1
         /\ Accepted(BrightnessRequests[1]) )
       =>  /\ last.success
           /\ Applied(HISTORY, "brightness", last.brightness_result)
           /\ Applied(HISTORY, "power_state", last.brightness_result > 0)
           /\ Stamped(HISTORY, {"brightness", "power_state"})
    /\ ( /\ last.op = "turn"
         /\ Len(last.sent) = 1
         /\ Accepted(last.sent[1]) )
       =>  /\ last.success
           /\ Applied(HISTORY, "power_state", last.onOff = "on")
           /\ Stamped(HISTORY, {"power_state"})
    /\ PolledState
       =>  /\ last.raised = "None"
           /\ Applied(API, "online", Resp.online \in {"true", "True"})
           /\ "brightness" \in ignore_fields[API] =>
                 devices[last.device].brightness = Pre.brightness
           /\ "power_state" \in ignore_fields[API] =>
                 devices[last.device].power_state = Pre.power_state
           /\ ( /\ "power_state" \notin ignore_fields[API]
                /\ Resp.online \in {"true", "True"} )
              => devices[last.device].power_state = (Resp.powerState = "on")
           /\ Stamped(API, {"error"})

\* with history:brightness ignored, a successful set_brightness left the
\* cached brightness alone and switched the device on
C10Witness ==
    /\ last.op = "set_brightness"
    /\ last.success
    /\ "brightness" \in ignore_fields[HISTORY]
    /\ "power_state" \notin ignore_fields[HISTORY]
    /\ devices[last.device].brightness = last.pre.brightness
    /\ last.pre.brightness # last.brightness_result
    /\ ~last.pre.power_state
    /\ devices[last.device].power_state

\* a pair of an ignore string that ignore_device_attributes refuses
BadPair(pair) ==
    /\ pair # << >>
    /\ \/ Len(pair) # 2
       \/ lower(pair[1]) \notin {"api", "history"}
       \/ lower(pair[2]) \notin GoveeDeviceFields

\* the fields an ignore string names for a source
NamedFields(ignore_str, src) ==
    {lower(ignore_str[i][2]) :
        i \in {j \in 1 .. Len(ignore_str) :
                 /\ Len(ignore_str[j]) = 2
                 /\ lower(ignore_str[j][1]) = src}}

\* C11: ignore_device_attributes raises exactly when a pair is malformed or
\* names an unknown source or field, and then the active ignore set is what
\* it was; otherwise the active set is exactly the pairs of the string,
\* whatever was active before.
C11IgnoreSetReplaced ==
    last.op = "ignore_device_attributes" =>
        /\ (last.raised # "None") <=>
              (\E i \in 1 .. Len(last.ignore_str) : BadPair(last.ignore_str[i]))
        /\ last.raised # "None" => ignore_fields = last.pre
        /\ last.raised = "None" =>
              \A src \in GoveeSource :
                  ignore_fields[src] = NamedFields(last.ignore_str, src)

\* a successful call dropped the pair of an earlier call
C11Witness ==
    /\ last.op = "ignore_device_attributes"
    /\ last.raised = "None"
    /\ last.pre[HISTORY] = {"brightness"}
    /\ ignore_fields[HISTORY] = {"power_state"}
    /\ ignore_fields[API] = {"brightness"}

----------------------------------------------------------------------------
(* Properties of the rate limiter (SpecRateLimit). *)

\* the calls that go to the API
IsApiCall == last.op \in {"get_devices", "turn", "get_states"}

\* the first request of the call was sent at the given time
FirstSentAt(time) == last.sent # << >> /\ last.sent[1].at = time

\* the call was a command to a device whose command lock had not expired
CommandLocked == last.op = "turn" /\ last.pre.lock_set_until > last.before.now

\* C12: a call that starts with remaining <= threshold and a reset time in
\* the future sends no request before the reset time; a call that starts
\* with remaining > threshold sends its request without delay (a command
\* still waits for its device's lock); the threshold is the one configured
\* when the call starts.
C12DelayedUntilReset ==
    IsApiCall =>
        /\ (/\ last.before.limit_remaining <= last.before.rate_limit_on
            /\ last.before.limit_reset > last.before.now)
              => \A i \in 1 .. Len(last.sent) :
                    last.sent[i].at >= last.before.limit_reset
        /\ (/\ last.before.limit_remaining > last.before.rate_limit_on
            /\ last.sent # << >>
            /\ ~CommandLocked)
              => FirstSentAt(last.before.now)

C12Witness ==
    /\ last.op = "get_devices"
    /\ last.before.limit_remaining = 5
    /\ last.before.rate_limit_on = 5
    /\ last.before.now = 1
    /\ last.before.limit_reset = 2
    /\ FirstSentAt(2)

\* the call sent one request, and its answer had no rate-limit headers or
\* headers of which one does not parse
UnknownLimit ==
    /\ IsApiCall
    /\ Len(last.sent) = 1
    /\ last.sent[1].status # -1
    /\ \/ ~last.sent[1].headers.present
       \/ last.sent[1].headers.unparsable # "none"

\* C13: recording an answer without rate-limit headers, or with headers that
\* cannot be parsed, makes remaining exactly one less than it was before
\* that answer and leaves the reset time unchanged.
C13UnknownLimitDecrements ==
    UnknownLimit =>
        /\ limit_remaining = last.before.limit_remaining - 1
        /\ limit_reset = last.before.limit_reset

\* an answer whose Rate-Limit-Reset does not parse: remaining was 100 and is
\* now one less than the answer's Rate-Limit-Remaining
C13Witness ==
    /\ UnknownLimit
    /\ last.sent[1].headers.unparsable = "reset"
    /\ last.sent[1].headers.remaining = 5
    /\ last.before.limit_remaining = 100
    /\ limit_remaining = 4
    /\ limit_reset = last.before.limit_reset

----------------------------------------------------------------------------
(* Properties of the locks (SpecPoll, SpecBrightness). *)

\* a get_states step on a device whose lock on state requests has not expired
CooldownPoll ==
    /\ last'.op = "get_states"
    /\ last'.device \in DOMAIN devices
    /\ devices[last'.device].lock_get_until > now

\* C14: a get_states call on a device that is inside its poll cooldown (the
\* 2 seconds after a control request on it was answered with 200) sends no
\* state request and returns the cached record with source history; right
\* after an accepted command the record carries the command's value.
C14CooldownPollCached ==
    [][CooldownPoll =>
          /\ last'.sent = << >>
          /\ last'.raised = "None"
          /\ last'.err = NoError
          /\ devices'[last'.device] =
                [devices[last'.device] EXCEPT !.source = HISTORY,
                                              !.timestamp = now]
          /\ (/\ last.op = "turn"
              /\ last.device = last'.device
              /\ last.success)
                => devices'[last'.device].power_state = (last.onOff = "on")]_vars

\* a poll one second after an accepted turn_on: nothing sent, the device on
C14Witness ==
    /\ Polled
    /\ Pre.retrievable
    /\ Pre.lock_get_until = 2
    /\ last.before.now = 1
    /\ last.sent = << >>
    /\ devices[last.device].power_state
    /\ devices[last.device].source = HISTORY

----------------------------------------------------------------------------
(* Properties of concurrent commands (SpecCommands, SpecCommandsFair). *)

\* the tasks whose control request for device d is with the API
InFlight(d) ==
    {t \in TaskIds : /\ tasks[t].call \in Commands
                     /\ tasks[t].pc = "request"
                     /\ tasks[t].device = d}

\* task t calls a command on a device whose command lock has not expired
IssuedLocked(t) ==
    /\ tasks[t].pc = "idle"
    /\ tasks'[t].call \in Commands
    /\ devices[tasks'[t].device].lock_set_until > now

\* task t sleeps until the command lock of its device expires
WaitsForLock(t) == tasks[t].pc = "sleep" /\ tasks[t].at = "lock"

\* task t, which slept for the lock, hands its request to the transport
SentAfterLock(t) == WaitsForLock(t) /\ tasks'[t].pc = "request"

\* C15: a command issued on a device inside its command cooldown is not
\* rejected and sends nothing: it sleeps until the cooldown's end; when it
\* sends after that sleep the cooldown has expired; and, time advancing,
\* a command that waits for a cooldown that ends within the seconds of the
\* model sends its control request, or finds the device locked again by
\* another command until after those seconds.
C15LockedCommandWaits ==
    /\ [][\A t \in TaskIds :
            /\ IssuedLocked(t) =>
                  /\ WaitsForLock(t)'
                  /\ tasks'[t].log.sent = << >>
                  /\ tasks'[t].wake = devices[tasks'[t].device].lock_set_until
            /\ SentAfterLock(t) =>
                  devices[tasks[t].device].lock_set_until <= now]_vars
    /\ \A t \in TaskIds :
          (WaitsForLock(t) /\ tasks[t].wake <= MaxTime)
              ~> \/ tasks[t].pc = "request"
                 \/ tasks[t].pc = "sleep" /\ tasks[t].wake > MaxTime

\* a task that slept until second 1, the end of a cooldown, has its request
\* with the API
C15Witness ==
    \E t \in TaskIds :
        /\ tasks[t].pc = "request"
        /\ tasks[t].at = "lock"
        /\ tasks[t].wake = 1
        /\ devices[tasks[t].device].lock_set_until = 1
        /\ now = 1
        /\ InFlight(tasks[t].device) = {t}
        /\ \A u \in TaskIds \ {t} : tasks[u].pc = "idle"

\* task t hands its control request to the transport
Sent(t) ==
    /\ tasks'[t].call \in Commands
    /\ tasks[t].pc # "request"
    /\ tasks'[t].pc = "request"

\* C16: however two or more concurrent commands on the same device are
\* interleaved, at most one control request for the device is in flight at
\* any time, and a request is sent only once the command cooldown started
\* by the previous accepted request has expired.
C16CommandsSerialized ==
    /\ [](\A d \in DeviceIds : Cardinality(InFlight(d)) <= 1)
    /\ [][\A t \in TaskIds :
            Sent(t) => devices[tasks'[t].device].lock_set_until <= now]_vars

\* the requests of both tasks for the same device are in flight
C16Witness ==
    /\ InFlight("D1") = {1, 2}
    /\ tasks[1].wake = 0
    /\ tasks[2].wake = 0

----------------------------------------------------------------------------
(* Properties of discovery (SpecBrightness). *)

\* the last call was a get_devices that was answered with a device list
Discovered == last.op = "get_devices" /\ last.err = NoError

\* C17: the registry only grows: after a successful get_devices every device
\* that was in the registry before is still in it, also when the answer
\* omits it or is empty.
C17RegistryOnlyGrows ==
    Discovered => DOMAIN last.pre \subseteq DOMAIN devices

\* a successful get_devices with an empty answer emptied the registry
C17Witness ==
    /\ Discovered
    /\ last.listing = {}
    /\ DOMAIN last.pre = {"D1"}
    /\ DOMAIN devices = {}

\* C18: a get_devices whose answer lists a device that is already in the
\* registry leaves that device's record as it was: power, brightness,
\* color, color temperature, source, lock timestamps and learned values.
C18KnownDeviceUnaltered ==
    Discovered =>
        \A d \in last.listing \cap DOMAIN last.pre :
            /\ d \in DOMAIN devices
            /\ devices[d] = last.pre[d]

\* a device that was on, at brightness 142 and locked is listed again and
\* is off, at brightness 0 and unlocked
C18Witness ==
    /\ Discovered
    /\ "D1" \in last.listing \cap DOMAIN last.pre
    /\ last.pre["D1"].power_state
    /\ last.pre["D1"].brightness = 142
    /\ last.pre["D1"].lock_set_until > 0
    /\ ~devices["D1"].power_state
    /\ devices["D1"].brightness = 0
    /\ devices["D1"].lock_set_until = 0

----------------------------------------------------------------------------
(* Properties of the online flag. *)

\* the last call made at least one request attempt
Attempted == "sent" \in DOMAIN last /\ last.sent # << >>

\* the last request attempt of the last call failed at transport level
TransportFailed == Attempted /\ last.sent[Len(last.sent)].status = -1

C20OfflineMarksDevices ==
    /\ TransportFailed => \A d \in DOMAIN devices : ~devices[d].online
    /\ ~online => \A d \in DOMAIN devices : ~devices[d].online

\* a turn failed at transport level while the attribute online of source
\* API was ignored: the client is offline and its device still online
C20Witness ==
    /\ last.op = "turn"
    /\ TransportFailed
    /\ ~online
    /\ "online" \in ignore_fields[API]
    /\ last.pre.online
    /\ devices[last.device].online

\* the values of the online flag after each of the request attempts
RECURSIVE FlagAfter(_, _)
FlagAfter(sent, i) ==
    IF i > Len(sent) THEN << >>
    ELSE <<sent[i].status # -1>> \o FlagAfter(sent, i + 1)

\* the values a flag takes when it changes, starting from prev
RECURSIVE Changes(_, _)
Changes(prev, flags) ==
    IF flags = << >> THEN << >>
    ELSE IF Head(flags) = prev THEN Changes(prev, Tail(flags))
    ELSE <<Head(flags)>> \o Changes(Head(flags), Tail(flags))

\* C21: events.online fires exactly when the online flag changes, with the
\* new value, and not when an attempt confirms the value: the values fired
\* by a call are the changes of the flag over its request attempts, so they
\* alternate, and the first one of a client, which starts online, is false.
C21OnlineEventOnChange ==
    "events" \in DOMAIN last =>
        /\ last.events = Changes(last.before.online, FlagAfter(last.sent, 1))
        /\ \A i \in 1 .. Len(last.events) :
              last.events[i] = IF i = 1 THEN ~last.before.online
                               ELSE ~last.events[i - 1]
        /\ online = IF last.events = << >> THEN last.before.online
                    ELSE last.events[Len(last.events)]

\* a set_brightness whose first request failed at transport level and whose
\* second got a response: offline and online again were fired
C21Witness ==
    /\ last.op = "set_brightness"
    /\ last.before.online
    /\ Len(last.sent) = 2
    /\ last.events = <<FALSE, TRUE>>

----------------------------------------------------------------------------
(* Properties of the learning storage. *)

\* C22: the backing store's read() is called at most once, for every
\* sequence and interleaving of discoveries, polls and brightness commands,
\* also when calls overlap while a read is pending.
C22ReadAtMostOnce == read_call_count <= 1

\* two get_devices calls overlap: both have called read() and wait for it
C22Witness ==
    /\ read_call_count = 2
    /\ tasks[1].pc = "read"
    /\ tasks[2].pc = "read"

\* the last call, on a device, changed one of the learned ranges of its record
Learned ==
    /\ last.op \in {"set_brightness", "get_states"}
    /\ last.device \in DOMAIN devices
    /\ \/ devices[last.device].learned_set_brightness_max #
             Pre.learned_set_brightness_max
       \/ devices[last.device].learned_get_brightness_max #
             Pre.learned_get_brightness_max

\* the records of the devices the last call worked on, when it began
PreRecords ==
    CASE last.op = "set_brightness" -> [d \in {last.device} |-> last.pre]
      [] last.op = "get_states" -> last.pre
      [] OTHER -> [d \in {} |-> 0]

\* the devices of which the last call changed a learned range
LearnedDevices ==
    {d \in DOMAIN PreRecords \cap DOMAIN devices :
        \/ devices[d].learned_set_brightness_max #
              PreRecords[d].learned_set_brightness_max
        \/ devices[d].learned_get_brightness_max #
              PreRecords[d].learned_get_brightness_max}

\* the map of before the call with the learned ranges of the devices ds put
\* in: the entries of all other devices as they were
WithLearned(infos, ds) ==
    [x \in DOMAIN infos \cup ds |->
        IF x \in ds
        THEN [(IF x \in DOMAIN infos THEN infos[x] ELSE GoveeLearnedInfo) EXCEPT
                !.set_brightness_max = devices[x].learned_set_brightness_max,
                !.get_brightness_max = devices[x].learned_get_brightness_max]
        ELSE infos[x]]

\* C23: the backing store's write() is called, with the complete map of all
\* devices, exactly when a call changed the learned set_brightness_max or
\* get_brightness_max of a device: once for each device it changed, and
\* the store is then the map of before the call, every entry of it, with
\* the ranges of those devices put in; discovery, and commands and polls
\* that only confirm what is known, call no write and leave the store.
C23WriteOnLearning ==
    "writes" \in DOMAIN last =>
        /\ last.writes = Cardinality(LearnedDevices)
        /\ storage = WithLearned(last.before.storage, LearnedDevices)

\* a poll that learned get_brightness_max 254 of the first device, on a
\* store of both devices, wrote once: the map with that value next to the
\* stored set_brightness_max, and the entry of the second device as it was
C23Witness ==
    /\ last.op = "get_states"
    /\ LearnedDevices = {"D1"}
    /\ last.writes = 1
    /\ last.before.storage = LEARNED_BOTH
    /\ DOMAIN storage = AccountDeviceIds
    /\ storage["D1"].get_brightness_max = 254
    /\ storage["D1"].set_brightness_max = 254
    /\ storage["D2"] = LEARNED_BOTH["D2"]

\* a set_brightness that learned set_brightness_max 100 of the second
\* device, on a store of the first device alone, wrote the map of both
C23OtherDeviceAdded ==
    /\ last.op = "set_brightness"
    /\ last.device = "D2"
    /\ last.writes = 1
    /\ last.before.storage = LEARNED_S100_G254
    /\ DOMAIN storage = AccountDeviceIds
    /\ storage["D1"] = LEARNED_S100_G254["D1"]
    /\ storage["D2"].set_brightness_max = 100

\* a set_brightness of the second device that confirmed its stored
\* set_brightness_max wrote nothing
C23ConfirmedNotWritten ==
    /\ last.op = "set_brightness"
    /\ last.device = "D2"
    /\ last.success
    /\ last.brightness = 142
    /\ last.writes = 0
    /\ last.before.storage = LEARNED_BOTH
    /\ storage = LEARNED_BOTH

\* the last call, a set_brightness or a poll, called a write() that raised
WriteFailed ==
    /\ last.op \in {"set_brightness", "get_states"}
    /\ last.writes > 0
    /\ write_fails

\* C24: when write() fails while a set_brightness or a poll persists a newly
\* learned range, the failure is swallowed: the call raises nothing and
\* returns its normal result, the record is updated as on success, and the
\* learned value stays in the record.
C24WriteFailureSwallowed ==
    WriteFailed =>
        /\ last.raised = "None"
        /\ Learned
        /\ last.op = "set_brightness" =>
              /\ last.success
              /\ devices[last.device].brightness = last.brightness_result
              /\ devices[last.device].source = HISTORY
        /\ last.op = "get_states" =>
              /\ last.err = NoError
              /\ devices[last.device].source = API
              /\ devices[last.device].timestamp = now

\* a poll learned get_brightness_max, write() raised, and get_states raised
\* with the record left as it was but for the learned value
C24Witness ==
    /\ WriteFailed
    /\ last.op = "get_states"
    /\ last.raised = "RuntimeError"
    /\ Pre.learned_get_brightness_max = None
    /\ devices[last.device].learned_get_brightness_max = 100
    /\ devices[last.device].brightness = Pre.brightness
    /\ devices[last.device].source = HISTORY

----------------------------------------------------------------------------
(* C25: a command call that does not end in success (validation error,     *)
(* API error status or transport failure) leaves the cached power_state,   *)
(* brightness, color, color_temp and provenance of its device as they were *)
(* before the call.                                                        *)

IsCommand == last.op \in {"turn", "set_brightness"}

StateFields == {"power_state", "brightness", "color", "color_temp", "source"}

StateKept(d, pre) == \A f \in StateFields : devices[d][f] = pre[f]

C25FailedCommandKeepsState ==
    (IsCommand /\ ~last.success) => StateKept(last.device, last.pre)

\* a rejected command that left the cached state alone
C25Witness ==
    /\ IsCommand
    /\ ~last.success
    /\ last.err = ApiError(400)
    /\ last.sent # <<>>
    /\ last.pre.source = HISTORY
    /\ StateKept(last.device, last.pre)

\* a command that failed in transport after a poll: the record is stamped
C25TransportFailureStamps ==
    /\ IsCommand
    /\ ~last.success
    /\ last.sent # <<>>
    /\ last.sent[Len(last.sent)].status = -1
    /\ ~StateKept(last.device, last.pre)

----------------------------------------------------------------------------
(* C26: a set_brightness call sends at most two brightness requests, the   *)
(* second only after the first was rejected with HTTP 400; turn_on,        *)
(* turn_off, set_color and set_color_temp send at most one control request *)
(* per call, whatever the answer.                                          *)

SingleRequestCommand == last.op \in {"turn", "set_color", "set_color_temp"}

C26AtMostOneRetry ==
    /\ last.op = "set_brightness" =>
          /\ Len(BrightnessRequests) <= 2
          /\ Len(BrightnessRequests) = 2 => BrightnessRequests[1].status = 400
    /\ SingleRequestCommand => Len(last.sent) <= 1

\* a set_brightness whose first request was refused with 400 and retried,
\* the retry being refused as well
C26Witness ==
    /\ last.op = "set_brightness"
    /\ Len(BrightnessRequests) = 2
    /\ BrightnessRequests[1].status = 400
    /\ BrightnessRequests[2].status \in {400, 429, -1}
    /\ ~last.success

\* a colour call refused with 429 or failed in transport: one request
C26RefusedColorOnce ==
    /\ last.op \in {"set_color", "set_color_temp"}
    /\ Len(last.sent) = 1
    /\ last.sent[1].status \in {429, -1}
    /\ ~last.success

----------------------------------------------------------------------------
(* C27: set_brightness with a value outside 0 .. 254, set_color_temp with  *)
(* a value outside 2000 .. 9000 and set_color with a component outside     *)
(* 0 .. 255 return (False, error) without sending a request, and leave the *)
(* device record, its locks and the rate-limit state as they were.         *)

OutOfRange(x, low, high) == x < low \/ x > high

InvalidArgument ==
    \/ last.op = "set_brightness" /\ OutOfRange(last.brightness, 0, 254)
    \/ last.op = "set_color_temp" /\ OutOfRange(last.color_temp, 2000, 9000)
    \/ /\ last.op = "set_color"
       /\ \E i \in 1..Len(last.color) : OutOfRange(last.color[i], 0, 255)

RateLimitKept ==
    /\ limit = last.before.limit
    /\ limit_remaining = last.before.limit_remaining
    /\ limit_reset = last.before.limit_reset

C27InvalidArgumentRejected ==
    InvalidArgument =>
        /\ ~last.success
        /\ last.err # NoError
        /\ last.sent = <<>>
        /\ devices[last.device] = last.pre
        /\ RateLimitKept
        /\ now = last.before.now

\* a colour temperature above the range, refused on a device that carries
\* state and locks from an earlier accepted command
C27Witness ==
    /\ last.op = "set_color_temp"
    /\ last.color_temp > 9000
    /\ ~last.success
    /\ last.sent = <<>>
    /\ last.pre.lock_set_until > 0
    /\ devices[last.device] = last.pre

\* a colour with a component above the range, refused
C27ColorRefused ==
    /\ last.op = "set_color"
    /\ InvalidArgument
    /\ ~last.success
    /\ last.sent = <<>>

\* a brightness above the range, refused
C27BrightnessRefused ==
    /\ last.op = "set_brightness"
    /\ last.brightness > 254
    /\ ~last.success
    /\ last.sent = <<>>

----------------------------------------------------------------------------
(* C28: once a device of the registry has a known set_brightness_max or    *)
(* get_brightness_max, that value never returns to unknown (None), neither *)
(* in the device record nor in the persisted map, whatever commands, polls *)
(* and discoveries follow.                                                 *)

Quirks == {"set_brightness_max", "get_brightness_max"}

\* the field of GoveeDevice that holds a quirk
learned_field(q) ==
    IF q = "set_brightness_max"
    THEN "learned_set_brightness_max" ELSE "learned_get_brightness_max"

RecordKnows(ds, d, q) == d \in DOMAIN ds /\ ds[d][learned_field(q)] # None

MapKnows(infos, d, q) == d \in DOMAIN infos /\ infos[d][q] # None

\* one step keeps what the record of a device of the registry knows: in
\* the record while the device stays in the registry, also when a
\* discovery creates it again, and in the store when the store has it
QuirksKept ==
    \A d \in DeviceIds, q \in Quirks :
        RecordKnows(devices, d, q) =>
            /\ d \in DOMAIN devices' => RecordKnows(devices', d, q)
            /\ MapKnows(storage, d, q) => MapKnows(storage', d, q)

C28QuirkNeverForgotten == [][QuirksKept]_vars

\* the record of the device knows the range it reports, and so does the
\* store, while a brightness request above 100 is in flight for a coroutine
\* whose GoveeDevice object, taken before the last discovery, knows
\* neither range
C28Witness ==
    \E t \in TaskIds :
        /\ tasks[t].call = "set_brightness"
        /\ tasks[t].pc = "request"
        /\ tasks[t].stage = "first"
        /\ tasks[t].brightness_set > 100
        /\ Detached(tasks[t])
        /\ tasks[t].held.learned_get_brightness_max = None
        /\ RecordKnows(devices, tasks[t].device, "get_brightness_max")
        /\ MapKnows(storage, tasks[t].device, "get_brightness_max")

\* the record knows the range the device reports and the store has
\* forgotten it
C28Forgotten ==
    \E d \in DOMAIN devices \cap DOMAIN storage :
        /\ devices[d].learned_get_brightness_max = 254
        /\ storage[d].get_brightness_max = None
        /\ storage[d].set_brightness_max = 254

\* for a caller that awaits each call: a device that had learned both
\* ranges was discovered again and still has them, in the record and in
\* the store
C28Rediscovered ==
    /\ Discovered
    /\ \A q \in Quirks :
          /\ RecordKnows(last.pre, "D1", q)
          /\ RecordKnows(devices, "D1", q)
          /\ MapKnows(storage, "D1", q)

----------------------------------------------------------------------------
(* C29: a device's provenance is Polled (source api) only when the most    *)
(* recent update of its record came from a successful state poll of that   *)
(* device; after discovery and after every successful command it is        *)
(* Remembered (source history).                                            *)

OnDevice == last.op \in {"turn", "set_brightness", "set_color",
                         "set_color_temp", "get_states"}

\* the fields _update_state writes, with the stamp it leaves
UpdatedFields ==
    {"online", "power_state", "brightness", "color", "color_temp",
     "timestamp", "source"}

Differs(pre, d) == \E f \in UpdatedFields : pre[f] # devices[d][f]

\* the last call updated the record of d, or created it
Updated(d) ==
    \/ last.op = "get_devices"
       /\ (d \notin DOMAIN last.pre \/ Differs(last.pre[d], d))
    \/ OnDevice /\ last.device = d /\ Differs(Pre, d)

\* the last call was a state poll of d that was answered with a state
SuccessfulPoll(d) ==
    PolledState /\ last.device = d /\ last.raised = "None"

SuccessfulCommand == OnDevice /\ last.op # "get_states" /\ last.success

C29ProvenanceFollowsSource ==
    /\ \A d \in DOMAIN devices :
          (devices[d].source = API /\ Updated(d)) => SuccessfulPoll(d)
    /\ Discovered => \A d \in DOMAIN devices : devices[d].source = HISTORY
    /\ SuccessfulCommand => devices[last.device].source = HISTORY

\* a polled device was switched and its provenance went back to history
C29Witness ==
    /\ SuccessfulCommand
    /\ Pre.source = API
    /\ devices[last.device].source = HISTORY

\* a poll that failed in transport left its device with source api
C29FailedPollPolled ==
    /\ last.op = "get_states"
    /\ StateRequested(last.device)
    /\ Resp.status = -1
    /\ Pre.source = HISTORY
    /\ devices[last.device].source = API

----------------------------------------------------------------------------
(* C30: when the state request for a device is answered with a non-200     *)
(* status, get_states still completes and goes on to the next device: the  *)
(* device's error field holds the API error message, its other fields are  *)
(* unchanged, and a later successful poll of the device clears the error.  *)

\* the last call polled its device and the API answered with an error status
PollRefused ==
    /\ last.op = "get_states"
    /\ StateRequested(last.device)
    /\ Resp.status \in {400, 429}

C30PollErrorPerDevice ==
    /\ PollRefused =>
          /\ last.raised = "None"
          /\ devices[last.device].error = ApiError(Resp.status)
          /\ devices[last.device] =
                [Pre EXCEPT !.error = ApiError(Resp.status)]
    /\ (PolledState /\ last.raised = "None") =>
          devices[last.device].error = NoError

\* a refused poll: get_states raised AttributeError, the error field of the
\* record was not set
C30Witness ==
    /\ PollRefused
    /\ last.err = ApiError(Resp.status)
    /\ last.raised = "AttributeError"
    /\ devices[last.device].error = NoError
    /\ devices[last.device] = Pre

----------------------------------------------------------------------------
(* C31: for a device whose before_set_brightness_turn_on is true,          *)
(* set_brightness(b) with b > 0 sends a turn-on request and has its answer *)
(* before it sends the brightness request; with b = 0 it sends only the    *)
(* brightness request.                                                     *)

\* the last call was a set_brightness with a valid value on a device that
\* is to be turned on first
TurnOnFirstCall ==
    /\ last.op = "set_brightness"
    /\ last.brightness \in 0..254
    /\ last.pre.before_set_brightness_turn_on

IsTurnOn(m) == m.name = "turn" /\ m.value = "on"

\* C31: a set_brightness(b), b in 0 .. 254, on a device whose
\* before_set_brightness_turn_on is true: with b > 0 its first request is
\* turn:on and every later one is a brightness request sent at least one
\* second after the answer to the turn-on came; with b = 0 all its
\* requests are brightness requests.
C31TurnOnBeforeBrightness ==
    TurnOnFirstCall =>
        IF last.brightness > 0
        THEN /\ Len(last.sent) >= 2
             /\ IsTurnOn(last.sent[1])
             /\ \A i \in 2..Len(last.sent) :
                   /\ IsBrightnessRequest(last.sent[i])
                   /\ last.sent[i].at >= last.sent[1].answered + 1
        ELSE /\ Len(last.sent) >= 1
             /\ \A i \in 1..Len(last.sent) : IsBrightnessRequest(last.sent[i])

\* the test's case: brightness 1, turn-on accepted, then brightness sent
C31Witness ==
    /\ TurnOnFirstCall
    /\ last.brightness = 1
    /\ Len(last.sent) = 2
    /\ IsTurnOn(last.sent[1])
    /\ Accepted(last.sent[1])
    /\ IsBrightnessRequest(last.sent[2])
    /\ last.success

\* brightness 0 on such a device: the brightness request alone
C31ZeroSendsBrightnessOnly ==
    /\ TurnOnFirstCall
    /\ last.brightness = 0
    /\ Len(last.sent) = 1
    /\ IsBrightnessRequest(last.sent[1])
    /\ last.success

----------------------------------------------------------------------------
(* C32: get_states never sends a state request for a device that is not    *)
(* retrievable: its cached power, brightness, color, color temperature and *)
(* online flag stay unchanged, and its record is returned with provenance  *)
(* Remembered (source history).                                            *)

PolledRegistry == last.op = "get_states"

CachedFields == {"power_state", "brightness", "color", "color_temp", "online"}

CacheKept(d) == \A f \in CachedFields : devices[d][f] = last.pre[d][f]

C32NotRetrievableNotPolled ==
    PolledRegistry =>
        \A d \in DOMAIN last.pre :
            ~last.pre[d].retrievable =>
                /\ ~StateRequested(d)
                /\ CacheKept(d)
                /\ last.raised = "None"
                /\ devices[d].source = HISTORY

\* the tests' case: the retrievable device is polled, the other one, which
\* was switched on before, is returned as it was, with source history
C32Witness ==
    /\ PolledRegistry
    /\ last.raised = "None"
    /\ StateRequested("D1")
    /\ devices["D1"].source = API
    /\ ~StateRequested("D2")
    /\ last.pre["D2"].power_state
    /\ CacheKept("D2")
    /\ devices["D2"].source = HISTORY

\* the request for the retrievable device is refused: get_states raises
\* before it reaches the device that is not retrievable
C32RaisedBeforeReturn ==
    /\ PolledRegistry
    /\ StateRequested("D1")
    /\ last.resps["D1"].status = 400
    /\ last.raised = "AttributeError"
    /\ last.rounds = 1
    /\ "D2" \in DOMAIN devices

\* the request for the retrievable device fails in transport: the other
\* device is marked offline, with source api
C32MarkedOffline ==
    /\ PolledRegistry
    /\ StateRequested("D1")
    /\ last.resps["D1"].status = -1
    /\ last.pre["D2"].online
    /\ ~devices["D2"].online
    /\ devices["D2"].source = API

----------------------------------------------------------------------------
(* C33: in every interleaving of calls that run concurrently on one        *)
(* client, at the moment a request is handed to the transport the shared   *)
(* rate-limit state has remaining > threshold or now >= reset time: a      *)
(* caller that the limiter suspended does not send while a newer answer    *)
(* has recorded a used-up budget with a later reset.                       *)

\* coroutine t hands a request to the transport
HandsOver(t) == tasks[t].pc # "request" /\ tasks'[t].pc = "request"

\* the rate-limit state of the client lets a request go
BudgetAllowed == limit_remaining > rate_limit_on \/ now >= limit_reset

\* coroutine t was suspended by the rate limiter before its request
Suspended(t) == tasks[t].at \in {"limit_control", "limit_request"}

C33SendsWithinBudget ==
    [][\A t \in TaskIds : HandsOver(t) => BudgetAllowed]_vars

\* a caller that was suspended has sent at the second of the reset, the
\* budget still being the used-up one it had seen
C33Witness ==
    \E t \in TaskIds :
        /\ tasks[t].pc = "request"
        /\ Suspended(t)
        /\ tasks[t].wake = now
        /\ limit_reset = now
        /\ limit_remaining <= rate_limit_on

\* a get_devices that slept until second 1 has its request with the API
\* at second 1, and the reset is at second 2 with the budget used up
C33SentWhileExhausted ==
    \E t \in TaskIds :
        /\ tasks[t].pc = "request"
        /\ tasks[t].call = "get_devices"
        /\ Suspended(t)
        /\ tasks[t].wake = 1
        /\ now = 1
        /\ limit_reset = 2
        /\ limit_remaining <= rate_limit_on

----------------------------------------------------------------------------
(* C34: when a command on a device succeeds while a state request for the  *)
(* same device is in flight, the poll answer that arrives afterwards does  *)
(* not overwrite what the command set: throughout the poll cooldown the    *)
(* cached value is the commanded one.                                      *)

\* the poll cooldown of d is running
InCooldown(d) == now < devices[d].lock_get_until

\* the step ends a command: the body of its answer was read
CommandAnswered ==
    \E t \in TaskIds :
        /\ tasks[t].call \in Commands
        /\ tasks[t].pc = "body"
        /\ tasks'[t].pc = "idle"

\* within the cooldown only the answer to a command changes the cached
\* power state
CommandedValueKept ==
    \A d \in DOMAIN devices :
        (InCooldown(d) /\ ~CommandAnswered /\ d \in DOMAIN devices')
            => devices'[d].power_state = devices[d].power_state

C34PollKeepsCommandedValue == [][CommandedValueKept]_vars

\* a command was accepted while a state request for its device is in
\* flight: the device is on, remembered and in its cooldown
C34Witness ==
    \E t \in TaskIds :
        /\ tasks[t].call = "get_states"
        /\ tasks[t].pc = "request"
        /\ InCooldown(tasks[t].device)
        /\ devices[tasks[t].device].power_state
        /\ devices[tasks[t].device].source = HISTORY

\* the device was switched on, and a poll answer changed it to off with
\* source api while the cooldown was still running
C34OverwrittenInCooldown ==
    \E d \in DOMAIN devices :
        /\ InCooldown(d)
        /\ devices[d].source = API
        /\ ~devices[d].power_state
        /\ devices[d].timestamp < devices[d].lock_get_until
        /\ devices[d].timestamp + DELAY_GET_FOLLOWING_SET_SECONDS
              > devices[d].lock_get_until

----------------------------------------------------------------------------
(* C35: a get_devices call that ends with an error (non-200 status or      *)
(* transport failure) leaves the set of devices of the registry unchanged  *)
(* and returns the known devices with the error: no known device is        *)
(* dropped or created again with default state.                            *)

DiscoveryFailed == last.op = "get_devices" /\ last.err # NoError

\* what a record created again would lose
KeptFields ==
    {"power_state", "brightness", "color", "color_temp", "lock_set_until",
     "lock_get_until", "learned_set_brightness_max",
     "learned_get_brightness_max"}

C35FailedDiscoveryKeepsRegistry ==
    DiscoveryFailed =>
        /\ DOMAIN devices = DOMAIN last.pre
        /\ \A d \in DOMAIN last.pre :
              \A f \in KeptFields : devices[d][f] = last.pre[d][f]

\* a get_devices answered with an error status emptied a registry that
\* held a device that was switched on
C35Witness ==
    /\ DiscoveryFailed
    /\ last.err = ApiError(429)
    /\ "D1" \in DOMAIN last.pre
    /\ last.pre["D1"].power_state
    /\ DOMAIN devices = {}

----------------------------------------------------------------------------
(* C36: after a transport failure has marked every device offline, the     *)
(* first get_states call in which every request succeeds and every polled  *)
(* device is reported online leaves every device of the registry,          *)
(* retrievable or not, with online = true.                                 *)

\* every device of the registry was offline when the call began
AllOfflineBefore ==
    /\ DOMAIN last.pre # {}
    /\ \A d \in DOMAIN last.pre : ~last.pre[d].online

\* every state request of the call was answered 200 with online true
EveryRequestOnline ==
    /\ last.raised = "None"
    /\ \E d \in DOMAIN last.pre : StateRequested(d)
    /\ \A d \in DOMAIN last.pre :
           StateRequested(d) =>
               /\ last.resps[d].status = 200
               /\ last.resps[d].online = "true"

C36AllOnlineAfterRecovery ==
    (PolledRegistry /\ AllOfflineBefore /\ EveryRequestOnline) =>
        \A d \in DOMAIN devices : devices[d].online

\* the polled device is online again, the device that is not retrievable
\* is returned offline although the connection is back
C36Witness ==
    /\ PolledRegistry
    /\ AllOfflineBefore
    /\ EveryRequestOnline
    /\ online
    /\ StateRequested("D1")
    /\ devices["D1"].online
    /\ ~StateRequested("D2")
    /\ ~devices["D2"].online

----------------------------------------------------------------------------
(* C37: quirks survive a restart: when a new session reads the map that    *)
(* the previous session persisted, every rediscovered device starts with   *)
(* the set_brightness_max, get_brightness_max, turn_on_before_brightness   *)
(* and offline_is_off values that its record held at the end of the        *)
(* previous session.                                                       *)

QuirkFields ==
    {"learned_set_brightness_max", "learned_get_brightness_max",
     "before_set_brightness_turn_on", "config_offline_is_off"}

SameQuirks(rec, old) == \A f \in QuirkFields : rec[f] = old[f]

Restarted == last.op = "restart"

\* the discovery that directly follows a restart, on a store that holds
\* what the previous session persisted, gives every device that was in the
\* registry at the end of that session the quirks its record held
QuirksSurvive ==
    (Restarted /\ last'.op = "get_devices" /\ last'.err = NoError) =>
        \A d \in DOMAIN devices' \cap DOMAIN last.pre :
            d \in DOMAIN storage => SameQuirks(devices'[d], last.pre[d])

C37QuirksSurviveRestart == [][QuirksSurvive]_vars

\* the first discovery of a session that found an entry for the H6104 in
\* the store: the device no longer asks for a turn-on before brightness
C37Witness ==
    /\ Discovered
    /\ last.reads = 1
    /\ "D2" \in DOMAIN last.before.storage
    /\ "D2" \in DOMAIN devices
    /\ devices["D2"].model = "H6104"
    /\ devices["D2"].learned_set_brightness_max = 254
    /\ ~devices["D2"].before_set_brightness_turn_on

\* the same discovery for the H6163: both ranges of the previous session
\* are in the new record
C37RangesRestored ==
    /\ Discovered
    /\ last.reads = 1
    /\ "D1" \in DOMAIN last.before.storage
    /\ "D1" \in DOMAIN devices
    /\ devices["D1"].learned_set_brightness_max = 254
    /\ devices["D1"].learned_get_brightness_max = 254

----------------------------------------------------------------------------
(* C38: learning only moves toward the wider or confirmed value: a         *)
(* get_brightness_max of 254 or -1 never changes again, a                  *)
(* get_brightness_max of 100 can only change to 254, and a                 *)
(* set_brightness_max of 100 never changes to 254.                         *)

GetMaxMoves(v, w) == v = w \/ v = None \/ (v = 100 /\ w = 254)

SetMaxMoves(v, w) == ~(v = 100 /\ w = 254)

\* the ranges of record new against those of record old
RecordMoves(old, new) ==
    /\ GetMaxMoves(old.learned_get_brightness_max,
                   new.learned_get_brightness_max)
    /\ SetMaxMoves(old.learned_set_brightness_max,
                   new.learned_set_brightness_max)

EntryMoves(old, new) ==
    /\ GetMaxMoves(old.get_brightness_max, new.get_brightness_max)
    /\ SetMaxMoves(old.set_brightness_max, new.set_brightness_max)

\* every step moves the ranges of a record, of a cached entry and of a
\* persisted entry only that way; so does the discovery that follows a
\* restart, against the records of the session before
LearningMoves ==
    /\ \A d \in DOMAIN devices \cap DOMAIN devices' :
           RecordMoves(devices[d], devices'[d])
    /\ \A d \in DOMAIN learned_info \cap DOMAIN learned_info' :
           EntryMoves(learned_info[d], learned_info'[d])
    /\ \A d \in DOMAIN storage \cap DOMAIN storage' :
           EntryMoves(storage[d], storage'[d])
    /\ Restarted =>
           \A d \in DOMAIN last.pre \cap DOMAIN devices' :
               RecordMoves(last.pre[d], devices'[d])

C38LearningOnlyWidens == [][LearningMoves]_vars

\* the record says the device takes 0 .. 100 while the first request of a
\* coroutine's set_brightness is in flight with a value above 100, which
\* was computed before the range was learned
C38Witness ==
    \E t \in TaskIds :
        /\ tasks[t].call = "set_brightness"
        /\ tasks[t].pc = "request"
        /\ tasks[t].stage = "first"
        /\ tasks[t].brightness_set > 100
        /\ ~Detached(tasks[t])
        /\ devices[tasks[t].device].learned_set_brightness_max = 100
        /\ MapKnows(storage, tasks[t].device, "set_brightness_max")
        /\ storage[tasks[t].device].set_brightness_max = 100

\* for a caller that awaits each call: a poll of a device that reports up
\* to 254 answered 42 and the range stays 254; the device that is never
\* polled still has -1
C38RangeKept ==
    /\ PolledRegistry
    /\ StateRequested("D1")
    /\ last.resps["D1"].status = 200
    /\ last.resps["D1"].brightness = 42
    /\ last.pre["D1"].learned_get_brightness_max = 254
    /\ devices["D1"].learned_get_brightness_max = 254
    /\ "D2" \in DOMAIN storage
    /\ devices["D2"].learned_get_brightness_max = -1

\* a poll widened the assumed range 100 to 254
C38Widened ==
    /\ PolledRegistry
    /\ StateRequested("D1")
    /\ last.pre["D1"].learned_get_brightness_max = 100
    /\ devices["D1"].learned_get_brightness_max = 254

\* a device that takes 0..100 was sent a brightness above 100 of 254 and
\* still takes 0..100
C38SetRangeKept ==
    /\ last.op = "set_brightness"
    /\ last.brightness > 100
    /\ last.success
    /\ last.pre.learned_set_brightness_max = 100
    /\ devices[last.device].learned_set_brightness_max = 100

----------------------------------------------------------------------------
(* C39: whenever no operation is in progress, for every device of the      *)
(* registry that has an entry in the cache of the learning store, the      *)
(* entry's set_brightness_max and get_brightness_max equal the values held *)
(* in the device record.                                                   *)

NoOperationInProgress == \A t \in TaskIds : tasks[t].pc = "idle"

EntryMatchesRecord(entry, rec) ==
    /\ entry.set_brightness_max = rec.learned_set_brightness_max
    /\ entry.get_brightness_max = rec.learned_get_brightness_max

C39CacheMatchesRecords ==
    NoOperationInProgress =>
        \A d \in DOMAIN devices \cap DOMAIN learned_info :
            EntryMatchesRecord(learned_info[d], devices[d])

\* a state request is in flight for a coroutine whose GoveeDevice object
\* was taken before the last discovery; neither that object nor the record
\* of the registry knows the range the device reports
C39Witness ==
    \E t \in TaskIds :
        /\ tasks[t].call = "get_states"
        /\ tasks[t].pc = "request"
        /\ Detached(tasks[t])
        /\ tasks[t].held.learned_get_brightness_max = None
        /\ tasks[t].device \in DOMAIN devices
        /\ devices[tasks[t].device].learned_get_brightness_max = None

\* no operation is in progress, the cache has the range the device
\* reports and the record of the registry does not
C39Mismatch ==
    /\ NoOperationInProgress
    /\ \E d \in DOMAIN devices \cap DOMAIN learned_info :
          /\ learned_info[d].get_brightness_max = 254
          /\ devices[d].learned_get_brightness_max = None

\* for a caller that awaits each call: a poll learned the range the
\* retrievable device reports, after a command had learned the range the
\* other device takes, and both entries of the cache hold what the records
\* hold
C39Learned ==
    /\ NoOperationInProgress
    /\ PolledRegistry
    /\ StateRequested("D1")
    /\ last.pre["D1"].learned_get_brightness_max = None
    /\ devices["D1"].learned_get_brightness_max = 254
    /\ "D1" \in DOMAIN learned_info
    /\ learned_info["D1"].get_brightness_max = 254
    /\ "D2" \in DOMAIN learned_info
    /\ devices["D2"].learned_set_brightness_max # None
    /\ learned_info["D2"].set_brightness_max
          = devices["D2"].learned_set_brightness_max

----------------------------------------------------------------------------
(* C40: after a response with valid rate-limit headers was recorded, the   *)
(* reset time equals the smaller of the header's reset value and the time  *)
(* of recording + 180 seconds, so that a rate-limit suspension, which      *)
(* sleeps until the reset time, never lasts longer than 180 seconds.       *)

\* the last request of the last call and its answer
LastSent == last.sent[Len(last.sent)]

\* the last call recorded an answer whose three headers parse
RecordedValidHeaders ==
    /\ "sent" \in DOMAIN last
    /\ Len(last.sent) > 0
    /\ LastSent.status # -1
    /\ LastSent.headers.present
    /\ LastSent.headers.unparsable = "none"

\* the seconds rate_limit_delay would sleep now
rate_limit_reset_seconds == limit_reset - now

C40ResetCapped ==
    /\ RecordedValidHeaders =>
          limit_reset = IF LastSent.headers.reset
                              < LastSent.answered + RATELIMIT_RESET_MAX_SECONDS
                        THEN LastSent.headers.reset
                        ELSE LastSent.answered + RATELIMIT_RESET_MAX_SECONDS
    /\ rate_limit_reset_seconds <= RATELIMIT_RESET_MAX_SECONDS

\* a reset header of 200, recorded after time 0, was cut to 180 seconds
\* from the recording
C40Witness ==
    /\ RecordedValidHeaders
    /\ LastSent.headers.reset = 200
    /\ LastSent.answered > 0
    /\ LastSent.answered + RATELIMIT_RESET_MAX_SECONDS < 200
    /\ limit_reset = LastSent.answered + RATELIMIT_RESET_MAX_SECONDS

\* a reset header below the maximum was taken as it came
C40HeaderTaken ==
    /\ RecordedValidHeaders
    /\ LastSent.headers.reset = 2
    /\ limit_reset = 2

============================================================================
